---------------------------- MODULE Spec2Model ----------------------------
(***************************************************************************)
(* GuardLoop: the request pipeline of the daemon (adapter retry, the       *)
(* enforcement decision, file execution) and the lifecycle of dynamic      *)
(* guardrails, modelled from the Python sources.                           *)
(*                                                                         *)
(* The specifications of the module:                                       *)
(*   Spec        GuardrailDaemon.process_request with the adapter's retry  *)
(*               loop inside it, the auto-save step and the task of        *)
(*               _log_session after it; SpecLive adds that the task runs;  *)
(*   SpecFiles   the FileExecutor API called directly;                     *)
(*   SpecRules   AdaptiveGuardrailGenerator over the dynamic_guardrails    *)
(*               table;                                                    *)
(*   SpecConv    ConversationManager;                                      *)
(*   SpecLearned PatternAnalyzer over one group of rows;                   *)
(*   SpecStore   the sessions table and its child tables;                  *)
(*   SpecWorkers the background workers and their manager;                 *)
(*   SpecAgents  the chain optimiser, orchestrate and the evaluator.       *)
(***************************************************************************)
EXTENDS Integers, Sequences, FiniteSets, TLC

VARIABLES
    \* ---- GuardrailDaemon.process_request / BaseAdapter._execute_with_retry
    pc,           \* position of the request: idle, attempting, sleeping, responded, returned, raised
    request,      \* the AIRequest being processed (with the classifier's and config's answers)
    attempt,      \* loop variable of _execute_with_retry
    last_error,   \* local last_error of _execute_with_retry
    attemptLog,   \* history: the outcome of every subprocess attempt, in order
    sleeps,       \* history: the argument of every asyncio.sleep of the retry loop
    ai_response,  \* the AIResponse the adapter returned
    detected,     \* what validator.validate and failure_detector.scan returned
    result,       \* the AIResult returned by process_request
    raised,       \* the exception process_request raised
    \* ---- FileExecutor
    operations,   \* the FileOperation objects (mutable: validated, safety_score, warnings)
    disk,         \* resolved paths of the files that exist
    fxCall,       \* the last FileExecutor call and what it returned
    \* ---- AdaptiveGuardrailGenerator
    guardrails,   \* rows of dynamic_guardrails, id = index
    effectiveness,\* rows of rule_effectiveness
    now,          \* datetime.utcnow(), in days
    rulesCall,    \* the last generator call and what it returned
    \* ---- GuardrailDaemon._log_session and the tables of utils/db.py
    logTask,      \* the task created for _log_session: none, pending, done, failed, cancelled
    store,        \* rows of sessions, violations and failure_modes
    \* ---- ConversationManager
    conv,         \* self.conversations (its keys and lists), the rows of
                  \* conversation_history, the last call
    \* ---- PatternAnalyzer
    learned,      \* rows of failure_modes and learned_patterns seen by the analyser, its clock
    \* ---- BackgroundWorker / WorkerManager
    workers,      \* per worker: running flag, position of its run loop, cycles started
    \* ---- OrchestratorAgent / ChainOptimizer / reviewers
    agents,       \* the last call on the agent layer and what it returned
    \* ---- SemanticGuardrailMatcher
    matcher,      \* _model_loaded, guardrail_embeddings, the last call
    \* ---- AdaptiveGuardrailGenerator.track_effectiveness
    tracking,     \* rows of rule_effectiveness, each session's pending objects
                  \* and call in progress, the calls made
    \* ---- GuardrailCache / ContextManager
    ctx,          \* the clock, _cache, the dynamic rules and files read, the last call
    \* ---- one BackgroundWorker instance started more than once
    tasks         \* running, the start() tasks made for it, whether stop() came last

daemonVars == <<pc, request, attempt, last_error, attemptLog, sleeps, ai_response,
                detected, result, raised, logTask, store>>
fileVars   == <<operations, disk, fxCall>>
ruleVars   == <<guardrails, effectiveness, now, rulesCall>>
sideVars   == <<conv, learned, workers, agents>>
lateVars   == <<matcher, tracking, ctx, tasks>>
vars       == <<daemonVars, fileVars, ruleVars, sideVars, lateVars>>

None == "None"    \* Python's None

(***************************************************************************)
(* Small helpers                                                           *)
(***************************************************************************)
SeqToSet(s) == {s[i] : i \in 1..Len(s)}

(***************************************************************************)
(* FileExecutor (guardrail/core/file_executor.py)                          *)
(***************************************************************************)

\* Bounds of the file model
MaxOps == 2       \* operations in one batch

\* A path is a record [abs, parts]: parts are the components between "/".
\* FileExecutor.__init__: self.project_root = Path(project_root).resolve()
ProjectRoot == <<"home", "proj">>

\* The file paths an LLM output names.
FilePaths ==
    { [abs |-> FALSE, parts |-> <<"a.py">>],                  \* inside the root
      [abs |-> FALSE, parts |-> <<"..", "proj2", "a.py">>],   \* sibling directory /home/proj2
      [abs |-> FALSE, parts |-> <<"..", "other", "a.py">>],   \* traversal out of the root
      [abs |-> TRUE,  parts |-> <<"etc", "passwd">>],         \* system path
      [abs |-> FALSE, parts |-> <<"run.sh">>],
      [abs |-> FALSE, parts |-> <<"x.bin">>],
      [abs |-> FALSE, parts |-> <<"a\\0.py">>] }              \* embedded NUL: resolve() raises

\* File contents, as the set of the lines they hold.
Contents ==
    { {"x = 1"}, {"x = 1", "eval"}, {"x = 1", "password = 'pw'"} }

OperationTypes == {"create", "delete"}

\* FileExecutor.SYSTEM_PATHS (the two Windows entries never prefix a POSIX path)
SYSTEM_PATHS ==
    { <<"etc">>, <<"bin">>, <<"sbin">>, <<"usr", "bin">>, <<"usr", "sbin">>,
      <<"boot">>, <<"sys">>, <<"proc">>, <<"dev">> }

\* FileExecutor.DANGEROUS_PATTERNS, in list order
DANGEROUS_PATTERNS ==
    << "../", "sudo", "rm -rf", "eval", "exec", "__import__", ".exe$", ".bat$", ".sh$" >>

\* FileExecutor.SAFE_CODE_EXTENSIONS
SAFE_CODE_EXTENSIONS ==
    { ".py", ".js", ".ts", ".jsx", ".tsx", ".java", ".go", ".rs", ".cpp", ".c", ".h",
      ".css", ".scss", ".html", ".json", ".yaml", ".yml", ".md", ".txt", ".sql" }

\* Path(name).suffix.lower() of the component names in use
Suffix(name) ==
    CASE name \in {"a.py", "a\\0.py"} -> ".py"
      [] name = "run.sh"             -> ".sh"
      [] name = "x.bin"              -> ".bin"
      [] OTHER                       -> ""

\* a is a prefix of b as strings, for component names
StrPrefix(a, b) == a = b \/ <<a, b>> \in { <<"proj", "proj2">> }

\* Path.__truediv__: an absolute right operand replaces the left one
JoinPath(root, p) == IF p.abs THEN p.parts ELSE root \o p.parts

\* Path.resolve() without symlinks: ".." removes the component before it
RECURSIVE Normalize(_)
Normalize(parts) ==
    IF parts = <<>> THEN <<>>
    ELSE LET init == Normalize(SubSeq(parts, 1, Len(parts) - 1))
             last == parts[Len(parts)]
         IN  IF last = ".."
             THEN IF init = <<>> THEN <<>> ELSE SubSeq(init, 1, Len(init) - 1)
             ELSE Append(init, last)

\* (self.project_root / operation.file_path).resolve(): the full path, or the
\* ValueError Python raises for an embedded NUL
ResolveRaises(p) == \E i \in 1..Len(p.parts) : p.parts[i] = "a\\0.py"
Resolve(p) == Normalize(JoinPath(ProjectRoot, p))

\* str(full).startswith(str(prefix)) on "/"-joined components
StartsWith(full, prefix) ==
    \/ prefix = <<>>
    \/ /\ Len(full) >= Len(prefix)
       /\ \A i \in 1..(Len(prefix) - 1) : full[i] = prefix[i]
       /\ StrPrefix(prefix[Len(prefix)], full[Len(prefix)])

\* The path really lies under the root (component-wise)
InsideRoot(full) ==
    /\ Len(full) >= Len(ProjectRoot)
    /\ SubSeq(full, 1, Len(ProjectRoot)) = ProjectRoot

\* the end-anchored pattern a suffix matches: \.exe$, \.bat$, \.sh$
EndPattern(suffix) ==
    CASE suffix = ".exe" -> ".exe$"
      [] suffix = ".bat" -> ".bat$"
      [] suffix = ".sh"  -> ".sh$"
      [] OTHER           -> ""

\* re.search(pattern, str(full_path)): an end-anchored pattern looks at the last
\* component's suffix, a word pattern at the components
SearchPath(pattern, full) ==
    IF pattern \in {".exe$", ".bat$", ".sh$"}
    THEN full # <<>> /\ EndPattern(Suffix(full[Len(full)])) = pattern
    ELSE IF pattern = "../"
    THEN \E i \in 1..Len(full) : full[i] = ".."
    ELSE \E i \in 1..Len(full) : full[i] = pattern

\* re.search(pattern, operation.content)
SearchContent(pattern, content) == pattern \in content

\* the four secret_patterns of validate_operation, re.IGNORECASE
SecretLines == { "password = 'pw'", "api_key = 'k'", "secret = 's'", "token = 't'" }

(***************************************************************************)
(* safety_score is an IEEE-754 double.  It is written here in hundredths:  *)
(* 10n for the double nearest n/10, 10n-1 / 10n+1 for a double just below  *)
(* / above it, and -1 for every negative value (the code only compares the *)
(* score with 0.5, 0.7 and 0.8 and clamps it at 0.0).  The four entries    *)
(* are the subtractions whose double result is not the decimal one:        *)
(* 0.3-0.2, 0.7-0.2, 0.7-0.3, 0.8-0.2.                                     *)
(***************************************************************************)
InexactSub ==
    (<<30, 20>> :> 9) @@ (<<70, 20>> :> 49) @@ (<<70, 30>> :> 39) @@ (<<80, 20>> :> 61)

FloatSub(x, d) ==
    IF <<x, d>> \in DOMAIN InexactSub THEN InexactSub[<<x, d>>]
    ELSE IF x - d < 0 THEN -1 ELSE x - d

\* FileOperation.__init__
FileOperation(operation_type, file_path, content) ==
    [ operation_type |-> operation_type, file_path |-> file_path, content |-> content,
      validated |-> FALSE, safety_score |-> 0, warnings |-> <<>> ]

\* the patterns of DANGEROUS_PATTERNS that match, in list order
PathHits(full) == SelectSeq(DANGEROUS_PATTERNS, LAMBDA p : SearchPath(p, full))
ContentHits(content) == SelectSeq(DANGEROUS_PATTERNS, LAMBDA p : SearchContent(p, content))

Warn(kind, arg) == <<kind, arg>>

\* warnings.append(w); safety_score -= d        (acc is [score, warnings])
Deduct(acc, d, w) ==
    [ score |-> FloatSub(acc.score, d), warnings |-> Append(acc.warnings, w) ]

\* the same for every pattern that matched, in order
RECURSIVE DeductEach(_, _, _, _)
DeductEach(acc, kind, hits, n) ==
    IF n = 0 THEN acc
    ELSE Deduct(DeductEach(acc, kind, hits, n - 1), 30, Warn(kind, hits[n]))

\* validate_operation, "Check if path is within project root"
CheckRoot(full) ==
    IF ~StartsWith(full, ProjectRoot)
    THEN Deduct([score |-> 100, warnings |-> <<>>], 50,
                Warn("Path outside project root (potential path traversal)", ""))
    ELSE [score |-> 100, warnings |-> <<>>]

\* validate_operation, "Check system paths"
IsSystemPath(full) == \E sys_path \in SYSTEM_PATHS : StartsWith(full, sys_path)

\* validate_operation, "Check dangerous patterns in path"
CheckPath(acc, full) ==
    DeductEach(acc, "Dangerous pattern in path", PathHits(full), Len(PathHits(full)))

\* validate_operation, "Check file extension"
CheckExtension(acc, ext) ==
    IF ext \notin SAFE_CODE_EXTENSIONS
    THEN Deduct(acc, 20, Warn("Uncommon file extension", ext))
    ELSE acc

\* validate_operation, "Check content if present": the patterns, then the secrets
CheckContent(acc, content) ==
    IF content # {}
    THEN DeductEach(acc, "Dangerous pattern in content", ContentHits(content),
                    Len(ContentHits(content)))
    ELSE acc

CheckSecrets(acc, content) ==
    IF content # {} /\ content \cap SecretLines # {}
    THEN Deduct(acc, 20, Warn("Potential hardcoded secret detected", ""))
    ELSE acc

\* the score and the warnings validate_operation ends with
Scored(op, full) ==
    CheckSecrets(
        CheckContent(
            CheckExtension(
                CheckPath(CheckRoot(full), full),
                Suffix(op.file_path.parts[Len(op.file_path.parts)])),
            op.content),
        op.content)

\* is_safe = safety_score >= 0.5 and not any("System path" in w for w in warnings)
IsSafe(acc) ==
    /\ acc.score >= 50
    /\ ~ \E i \in 1..Len(acc.warnings) : acc.warnings[i][1] = "System path detected"

\* the tail of validate_operation: the fields it stores and what it returns
Validated(op, acc) ==
    [ safe |-> IsSafe(acc), warnings |-> acc.warnings,
      op |-> [ op EXCEPT !.safety_score = IF acc.score > 0 THEN acc.score ELSE 0,
                         !.warnings = acc.warnings,
                         !.validated = TRUE ] ]

\* FileExecutor.validate_operation: (is_safe, warnings) and the operation as it
\* leaves it.  The two early returns leave the operation untouched.
ValidateOperation(op) ==
    IF ResolveRaises(op.file_path)
    THEN [ safe |-> FALSE, warnings |-> << Warn("Invalid path", "embedded null byte") >>,
           op |-> op ]
    ELSE IF IsSystemPath(Resolve(op.file_path))
    THEN [ safe |-> FALSE,
           warnings |-> Append(CheckRoot(Resolve(op.file_path)).warnings,
                               Warn("System path detected", "")),
           op |-> op ]
    ELSE Validated(op, Scored(op, Resolve(op.file_path)))

\* execute_operation after its validation step, on the operation op as validated
\* (auto_save_enabled is True, as the daemon constructs the executor).
\* ioFails: the full paths on which mkdir/open/unlink raise an OSError.
Perform(op, full, confirm, dsk, ioFails) ==
    IF confirm /\ ~(op.safety_score >= 80 /\ op.warnings = <<>>) /\ op.safety_score < 70
    THEN [ success |-> FALSE, error |-> "User confirmation required but not provided",
           op |-> op, disk |-> dsk ]
    ELSE IF ResolveRaises(op.file_path)
    THEN [ success |-> FALSE, error |-> "embedded null byte", op |-> op, disk |-> dsk ]
    ELSE IF full \in ioFails
    THEN [ success |-> FALSE, error |-> "Permission denied", op |-> op, disk |-> dsk ]
    ELSE IF op.operation_type \in {"create", "update"}
    THEN [ success |-> TRUE, error |-> None, op |-> op, disk |-> dsk \cup {full} ]
    ELSE IF full \in dsk
    THEN [ success |-> TRUE, error |-> None, op |-> op, disk |-> dsk \ {full} ]
    ELSE [ success |-> FALSE, error |-> "File does not exist", op |-> op, disk |-> dsk ]

\* execute_operation on an operation not yet validated: v is what
\* validate_operation returned
ExecuteFresh(v, confirm, dsk, ioFails) ==
    IF ~v.safe
    THEN [ success |-> FALSE, error |-> "Unsafe operation", op |-> v.op, disk |-> dsk ]
    ELSE Perform(v.op, Resolve(v.op.file_path), confirm, dsk, ioFails)

\* FileExecutor.execute_operation(operation, confirm): (success, error), the
\* operation and the disk after the call
ExecuteOperation(op, confirm, dsk, ioFails) ==
    IF ~op.validated
    THEN ExecuteFresh(ValidateOperation(op), confirm, dsk, ioFails)
    ELSE Perform(op, Resolve(op.file_path), confirm, dsk, ioFails)

\* "confirmation required" in error.lower()
MentionsConfirmation(error) == error = "User confirmation required but not provided"

\* the body of the loop of execute_all: the counters after operation n returned r
Tally(results, file_path, r) ==
    IF r.success
    THEN [ results EXCEPT !.succeeded = @ + 1, !.created_files = Append(@, file_path) ]
    ELSE IF r.error # None /\ MentionsConfirmation(r.error)
    THEN [ results EXCEPT !.skipped = @ + 1 ]
    ELSE [ results EXCEPT !.failed = @ + 1,
                          !.errors = Append(@, [file |-> file_path, error |-> r.error]) ]

Counted(before, n, r) ==
    [ results |-> Tally(before.results, before.ops[n].file_path, r),
      ops     |-> [ before.ops EXCEPT ![n] = r.op ],
      disk    |-> r.disk ]

ExecuteNth(before, n, confirm_all, ioFails) ==
    Counted(before, n, ExecuteOperation(before.ops[n], confirm_all, before.disk, ioFails))

\* FileExecutor.execute_all: the summary, the operations and the disk after the
\* loop over the first n operations
RECURSIVE ExecuteAllUpTo(_, _, _, _, _)
ExecuteAllUpTo(ops, n, confirm_all, dsk, ioFails) ==
    IF n = 0
    THEN [ results |-> [ total |-> Len(ops), succeeded |-> 0, failed |-> 0, skipped |-> 0,
                         errors |-> <<>>, created_files |-> <<>> ],
           ops |-> ops, disk |-> dsk ]
    ELSE ExecuteNth(ExecuteAllUpTo(ops, n - 1, confirm_all, dsk, ioFails),
                    n, confirm_all, ioFails)

ExecuteAll(ops, confirm_all, dsk, ioFails) ==
    ExecuteAllUpTo(ops, Len(ops), confirm_all, dsk, ioFails)

\* the full paths on which the file system refuses a write
IoFailures == { {}, { <<"home", "proj", "x.bin">> } }

NoCall == [ op |-> "none" ]

InitFiles ==
    /\ operations = <<>>
    /\ disk = {}
    /\ fxCall = NoCall

\* extract_operations yields FileOperation("create", path, content); the class
\* itself also takes the other operation types
NewOperation ==
    /\ Len(operations) < MaxOps
    /\ \E t \in OperationTypes, p \in FilePaths, c \in Contents :
          operations' = Append(operations, FileOperation(t, p, c))
    /\ fxCall' = NoCall
    /\ UNCHANGED <<disk, daemonVars, ruleVars, sideVars, lateVars>>

\* validate_operation called on its own (as get_execution_summary does)
Validate ==
    \E i \in 1..Len(operations) :
        LET v == ValidateOperation(operations[i])
        IN  /\ operations' = [ operations EXCEPT ![i] = v.op ]
            /\ fxCall' = [ op |-> "validate", index |-> i, before |-> operations[i],
                            safe |-> v.safe, warnings |-> v.warnings ]
            /\ UNCHANGED <<disk, daemonVars, ruleVars, sideVars, lateVars>>

Execute ==
    \E i \in 1..Len(operations), confirm \in BOOLEAN, ioFails \in IoFailures :
        LET r == ExecuteOperation(operations[i], confirm, disk, ioFails)
        IN  /\ operations' = [ operations EXCEPT ![i] = r.op ]
            /\ disk' = r.disk
            /\ fxCall' = [ op |-> "execute", index |-> i, before |-> operations[i],
                            confirm |-> confirm, success |-> r.success, error |-> r.error ]
            /\ UNCHANGED <<daemonVars, ruleVars, sideVars, lateVars>>

ExecuteBatch ==
    /\ operations # <<>>
    /\ \E confirm_all \in BOOLEAN, ioFails \in IoFailures :
        LET r == ExecuteAll(operations, confirm_all, disk, ioFails)
        IN  /\ operations' = r.ops
            /\ disk' = r.disk
            /\ fxCall' = [ op |-> "execute_all", before |-> operations,
                            confirm |-> confirm_all, results |-> r.results ]
            /\ UNCHANGED <<daemonVars, ruleVars, sideVars, lateVars>>

NextFiles == NewOperation \/ Validate \/ Execute \/ ExecuteBatch

(***************************************************************************)
(* BaseAdapter (guardrail/adapters/base.py)                                *)
(***************************************************************************)

\* BaseAdapter.__init__
max_retries == 3
retry_delay == 1

Severities == {"low", "medium", "high", "critical"}

\* What the tool printed, as what the daemon's readers find in it: the violations
\* validator.validate reports (their severities, in rule order), the failures
\* failure_detector.scan reports (sorted, critical first) and the operations
\* file_executor.extract_operations yields.
ViolationLists == { <<>>, <<"high">>, <<"critical", "low">> }
FailureLists   == { <<>>, <<"medium">>, <<"critical", "high">> }
OperationLists ==
    { <<>>,
      << FileOperation("create", [abs |-> FALSE, parts |-> <<"a.py">>], {"x = 1"}) >>,
      << FileOperation("create", [abs |-> FALSE, parts |-> <<"..", "other", "a.py">>], {"x = 1"}) >>,
      << FileOperation("create", [abs |-> FALSE, parts |-> <<"x.bin">>], {"x = 1", "eval"}),
         FileOperation("create", [abs |-> FALSE, parts |-> <<"run.sh">>], {"x = 1"}) >> }
Outputs == [ violations : ViolationLists, failures : FailureLists, operations : OperationLists ]

\* The empty text: the validator's absence rules fire on it (BPSBS_PATTERNS in dict
\* order), nothing else is found
EmptyOutput ==
    [ violations |-> <<"high", "critical", "critical", "high", "high", "high", "medium">>,
      failures |-> <<>>, operations |-> <<>> ]

\* How one run of the subprocess ends: it exits (return code, stderr), the wait
\* times out, or spawning/communicating raises (str(e) is msg)
ExitCodes == {0, 1, 2}
Outcomes ==
    [ kind : {"exit"}, code : ExitCodes, stderr : {"", "warning: deprecated flag"}, msg : {""} ]
    \cup [ kind : {"timeout"}, code : {0}, stderr : {""}, msg : {""} ]
    \cup [ kind : {"exception"}, code : {0}, stderr : {""}, msg : {"", "No such file"} ]

\* BaseAdapter._execute_subprocess when the process exits: the AIResponse
\* (execution_time_ms is left out)
ExecuteSubprocess(o, out) ==
    [ raw_output |-> out,
      error      |-> IF o.stderr # "" THEN o.stderr ELSE None,
      exit_code  |-> o.code,
      stdout     |-> out,
      stderr     |-> o.stderr ]

\* response.error or f"Exit code: {response.exit_code}"
ErrorOrExitCode(response) ==
    IF response.error # None /\ response.error # ""
    THEN response.error
    ELSE "Exit code: " \o ToString(response.exit_code)

\* last_error after an attempt that did not return
LastError(o, out) ==
    CASE o.kind = "exit"      -> ErrorOrExitCode(ExecuteSubprocess(o, out))
      [] o.kind = "timeout"   -> "Timeout after 30 seconds"
      [] o.kind = "exception" -> o.msg

\* the AIResponse after all retries failed
FailureResponse(error) ==
    [ raw_output |-> EmptyOutput, error |-> error, exit_code |-> 1,
      stdout |-> EmptyOutput, stderr |-> "" ]

\* 2 ** n
RECURSIVE Pow2(_)
Pow2(n) == IF n = 0 THEN 1 ELSE 2 * Pow2(n - 1)

\* One pass of the loop body of _execute_with_retry, up to its first await after
\* the subprocess: return on exit code 0, else sleep or give up.
Attempt ==
    /\ pc = "attempting"
    /\ \E o \in Outcomes, out \in Outputs :
        LET response == ExecuteSubprocess(o, out)
            returns  == o.kind = "exit" /\ response.exit_code = 0
            error    == LastError(o, out)
        IN  /\ attemptLog' = Append(attemptLog, o)
            /\ IF returns
               THEN /\ ai_response' = << response >>
                    /\ pc' = "responded"
                    /\ UNCHANGED <<last_error, sleeps>>
               ELSE /\ last_error' = error
                    /\ IF attempt < max_retries
                       THEN /\ sleeps' = Append(sleeps, retry_delay * Pow2(attempt - 1))
                            /\ pc' = "sleeping"
                            /\ UNCHANGED ai_response
                       ELSE /\ ai_response' = << FailureResponse(error) >>
                            /\ pc' = "responded"
                            /\ UNCHANGED sleeps
    /\ UNCHANGED <<request, attempt, detected, result, raised, logTask, store,
                   fileVars, ruleVars, sideVars, lateVars>>

\* asyncio.sleep(wait_time) returns; the loop goes to the next attempt
Wake ==
    /\ pc = "sleeping"
    /\ attempt' = attempt + 1
    /\ pc' = "attempting"
    /\ UNCHANGED <<request, last_error, attemptLog, sleeps, ai_response, detected,
                   result, raised, logTask, store, fileVars, ruleVars, sideVars, lateVars>>

(***************************************************************************)
(* GuardrailDaemon (guardloop/core/daemon.py)                              *)
(***************************************************************************)

Modes == {"standard", "strict"}

\* An AIRequest together with what the classifier and the configuration answer
\* for it: requires_guardrails, whether the tool is enabled, whether the
\* auto-save step runs (v2_enabled, v2_auto_save and a project_root)
Requests ==
    [ mode : Modes, guardrails_required : BOOLEAN, tool_enabled : BOOLEAN,
      auto_save : BOOLEAN ]

\* _enforce with the scan of the failures left out
EnforceViolationsOnly(mode, violations, failures) ==
    IF mode = "strict"
    THEN Len(SelectSeq(violations, LAMBDA v : v = "critical")) = 0
    ELSE TRUE

\* GuardrailDaemon._enforce
Enforce(mode, violations, failures) ==
    IF mode = "strict"
    THEN LET critical_violations == SelectSeq(violations, LAMBDA v : v = "critical")
             critical_failures   == SelectSeq(failures, LAMBDA f : f = "critical")
             blocked == Len(critical_violations) > 0 \/ Len(critical_failures) > 0
         IN  ~blocked
    ELSE TRUE

\* if ai_response.error:
ErrorIsSet(response) == response.error # None /\ response.error # ""

InitDaemon ==
    /\ pc = "idle"
    /\ request = [ mode |-> "standard", guardrails_required |-> TRUE,
                   tool_enabled |-> TRUE, auto_save |-> FALSE ]
    /\ attempt = 0
    /\ last_error = None
    /\ attemptLog = <<>>
    /\ sleeps = <<>>
    /\ ai_response = <<>>
    /\ detected = [ violations |-> <<>>, failures |-> <<>> ]
    /\ result = <<>>
    /\ raised = None

\* process_request up to adapter.execute: classification, context, get_adapter
\* (ValueError when the tool is not configured or not enabled), then the retry
\* loop starts
Submit ==
    /\ pc = "idle"
    /\ \E r \in Requests :
        /\ request' = r
        /\ IF r.tool_enabled
           THEN /\ pc' = "attempting"
                /\ attempt' = 1
                /\ raised' = None
           ELSE /\ pc' = "raised"
                /\ raised' = "ValueError"
                /\ UNCHANGED attempt
    /\ UNCHANGED <<last_error, attemptLog, sleeps, ai_response, detected, result,
                   logTask, store, fileVars, ruleVars, sideVars, lateVars>>

\* process_request after adapter.execute returned: the error check, parse,
\* validate, scan, _enforce, the auto-save step, asyncio.create_task for
\* _log_session (the task is created, not awaited) and the AIResult
Finish ==
    /\ pc = "responded"
    /\ LET response == ai_response[1]
           output     == response.raw_output
           violations == output.violations
           failures   == output.failures
           approved   == Enforce(request.mode, violations, failures)
       IN  IF ErrorIsSet(response)
           THEN /\ raised' = "AIExecutionError"
                /\ pc' = "raised"
                /\ UNCHANGED <<detected, result, logTask, fileVars>>
           ELSE /\ detected' = [ violations |-> violations, failures |-> failures ]
                /\ \E ioFails \in IoFailures :
                    LET runs == request.auto_save /\ output.operations # <<>>
                        exec == ExecuteAll(output.operations, FALSE, disk, ioFails)
                    IN  /\ operations' = IF runs THEN exec.ops ELSE operations
                        /\ disk' = IF runs THEN exec.disk ELSE disk
                        /\ fxCall' = IF runs
                                     THEN [ op |-> "execute_all", before |-> output.operations,
                                            confirm |-> FALSE, results |-> exec.results ]
                                     ELSE fxCall
                        /\ result' =
                             << [ raw_output |-> output,
                                  violations |-> IF request.guardrails_required
                                                 THEN violations ELSE <<>>,
                                  failures   |-> failures,
                                  approved   |-> approved,
                                  file_operations |-> IF runs THEN exec.results.created_files
                                                      ELSE <<>>,
                                  guardrails_applied |-> request.guardrails_required ] >>
                /\ logTask' = "pending"
                /\ pc' = "returned"
                /\ UNCHANGED raised
    /\ UNCHANGED <<request, attempt, last_error, attemptLog, sleeps, ai_response, store,
                   ruleVars, sideVars, lateVars>>

(***************************************************************************)
(* AdaptiveGuardrailGenerator (guardloop/core/adaptive_guardrails.py)      *)
(***************************************************************************)

\* Bounds of the rule model
MaxRules == 2     \* rows of dynamic_guardrails
MaxDay == 1       \* days the clock advances

\* AdaptiveGuardrailGenerator.__init__: confidence_threshold = 0.7, and the 0.3 of
\* threshold= in get_active_guardrails; confidences are written in hundredths
confidence_threshold == 70

\* deactivated_at IS NULL
NoTime == 0 - 1

\* rule_metadata: a new row has none (the constructor is given metadata=, not
\* rule_metadata=). The state keeps its deprecation_reason key. The keys
\* relevance_score and semantic_similarity, which get_active_guardrails writes,
\* are read only by the call that wrote them (relevance_score by the sort that
\* follows _score_by_relevance, semantic_similarity never) and are values local
\* to GetActiveGuardrails here.
NoMetadata == [ deprecation_reason |-> None ]

\* LearnedPattern rows; description is the set of its lower-cased words
LearnedPatterns ==
    { [ id |-> 1, confidence_score |-> 80, severity |-> "critical", category |-> "security",
        description |-> {"missing", "auth", "token", "check"} ],
      [ id |-> 2, confidence_score |-> 72, severity |-> "low", category |-> "performance",
        description |-> {"wrong", "cache", "key"} ],
      [ id |-> 3, confidence_score |-> 65, severity |-> "high", category |-> "quality",
        description |-> {"flaky", "test"} ] }

\* the task_types argument of generate_from_pattern (None, or a list)
TaskTypeArgs == { <<>>, << {"content"} >> }

DeprecationReasons == {"low_effectiveness", "false_positives"}

\* the arguments get_active_guardrails is called with; a prompt is the set of its
\* lower-cased words (<<>> is None, << {} >> the empty string)
TaskTypeFilters == { None, "code" }
MinConfidences  == { 60, 75 }
Prompts         == { <<>>, << {} >>, << {"fix", "auth", "token"} >> }
MaxRulesArgs    == { 1, 5 }

\* the cosine similarity find_relevant computes, in tenths: below the threshold
\* of 0.3, and two values above it
Similarities == { 2, 5, 9 }

\* _generate_rule_text: the words of the rule text
GenerateRuleText(pattern) ==
    IF "missing" \in pattern.description
    THEN {"must", "include:"} \cup pattern.description
    ELSE IF "forgot" \in pattern.description \/ "omit" \in pattern.description
    THEN {"do", "not", "forget:"} \cup pattern.description
    ELSE IF "incorrect" \in pattern.description \/ "wrong" \in pattern.description
    THEN {"avoid:"} \cup pattern.description
    ELSE {"learned:"} \cup pattern.description

\* _determine_enforcement_mode
DetermineEnforcementMode(severity) ==
    CASE severity \in {"low", "medium"} -> "warn"
      [] severity = "high"             -> "auto_fix"
      [] severity = "critical"         -> "block"
      [] OTHER                         -> "warn"

\* the ids of the rows, in table order
RowIds(rows) == [ i \in 1..Len(rows) |-> i ]

\* the query of generate_from_pattern: rows of the pattern still in the lifecycle
LiveRowsOf(rows, pattern_id) ==
    SelectSeq(RowIds(rows),
              LAMBDA i : /\ rows[i].pattern_id = pattern_id
                         /\ rows[i].status \in {"trial", "validated", "enforced"})

\* the DynamicGuardrailModel generate_from_pattern constructs
NewGuardrail(id, pattern, task_types, t) ==
    [ id |-> id, pattern_id |-> pattern.id, rule_text |-> GenerateRuleText(pattern),
      rule_category |-> pattern.category, confidence |-> pattern.confidence_score,
      status |-> "trial", enforcement_mode |-> DetermineEnforcementMode(pattern.severity),
      task_types |-> IF task_types = <<>> THEN {"code", "mixed"} ELSE task_types[1],
      activated_at |-> t, deactivated_at |-> NoTime, rule_metadata |-> NoMetadata ]

\* generate_from_pattern: the table after it and the id of the row returned (0: None)
GenerateFromPattern(rows, pattern, task_types, t) ==
    IF pattern.confidence_score < confidence_threshold
    THEN [ rows |-> rows, returned |-> 0 ]
    ELSE IF LiveRowsOf(rows, pattern.id) # <<>>
    THEN [ rows |-> rows, returned |-> LiveRowsOf(rows, pattern.id)[1] ]
    ELSE [ rows |-> Append(rows, NewGuardrail(Len(rows) + 1, pattern, task_types, t)),
           returned |-> Len(rows) + 1 ]

\* promote_to_validated without its test of the status
PromoteToValidatedAnyStatus(rows, rule_id) ==
    IF rule_id \notin DOMAIN rows
    THEN [ rows |-> rows, returned |-> FALSE ]
    ELSE [ rows |-> [ rows EXCEPT ![rule_id].status = "validated" ], returned |-> TRUE ]

\* promote_to_validated
PromoteToValidated(rows, rule_id) ==
    IF rule_id \notin DOMAIN rows \/ rows[rule_id].status # "trial"
    THEN [ rows |-> rows, returned |-> FALSE ]
    ELSE [ rows |-> [ rows EXCEPT ![rule_id].status = "validated" ], returned |-> TRUE ]

\* promote_to_enforced
PromoteToEnforced(rows, rule_id) ==
    IF rule_id \notin DOMAIN rows \/ rows[rule_id].status # "validated"
    THEN [ rows |-> rows, returned |-> FALSE ]
    ELSE [ rows |-> [ rows EXCEPT ![rule_id].status = "enforced",
                                  ![rule_id].enforcement_mode = "block" ],
           returned |-> TRUE ]

\* deprecate_rule
DeprecateRule(rows, rule_id, reason, t) ==
    IF rule_id \notin DOMAIN rows
    THEN [ rows |-> rows, returned |-> FALSE ]
    ELSE [ rows |-> [ rows EXCEPT ![rule_id].status = "deprecated",
                                  ![rule_id].deactivated_at = t,
                                  ![rule_id].rule_metadata.deprecation_reason = reason ],
           returned |-> TRUE ]

Min(a, b) == IF a <= b THEN a ELSE b
Max(a, b) == IF a >= b THEN a ELSE b

\* the query without its filters on status and deactivated_at
IsCandidateAnyStatus(g, task_type, min_confidence) ==
    /\ g.confidence >= min_confidence
    /\ task_type # None => task_type \in g.task_types

\* the query of get_active_guardrails
IsCandidate(g, task_type, min_confidence) ==
    /\ g.status \in {"validated", "enforced"}
    /\ g.confidence >= min_confidence
    /\ g.deactivated_at = NoTime
    /\ task_type # None => task_type \in g.task_types

Candidates(rows, task_type, min_confidence) ==
    SelectSeq(RowIds(rows), LAMBDA i : IsCandidate(rows[i], task_type, min_confidence))

\* bool(prompt): None and "" are falsy
Truthy(prompt) == prompt # <<>> /\ prompt[1] # {}

\* category_keywords of _score_by_relevance
CategoryKeywords ==
    [ security     |-> {"auth", "security", "token", "permission", "access"},
      performance  |-> {"slow", "optimize", "performance", "speed", "cache"},
      quality      |-> {"bug", "error", "fix", "quality", "test"},
      architecture |-> {"design", "architecture", "pattern", "structure"} ]

\* relevance_score of _score_by_relevance, in tenths (the prompts in Prompts hold a
\* keyword only as a whole word, so "kw in prompt_lower" is membership)
RelevanceScore(g, words) ==
    Min(Cardinality(g.rule_text \cap words) * 2, 10)
    + IF g.rule_category \in DOMAIN CategoryKeywords
      THEN Min(Cardinality(CategoryKeywords[g.rule_category] \cap words) * 3, 10)
      ELSE 0

\* _score_by_relevance: the relevance_score it stores for each listed row
ScoreByRelevance(rows, ids, words) ==
    [ i \in SeqToSet(ids) |-> RelevanceScore(rows[i], words) ]

RECURSIVE SumField(_, _, _)
SumField(rs, field, n) == IF n = 0 THEN 0 ELSE SumField(rs, field, n - 1) + rs[n][field]

\* the success-rate points, from the tracking rows of one rule
SuccessPoints(rs) ==
    IF rs = <<>> \/ SumField(rs, "times_triggered", Len(rs)) <= 0 THEN 0
    ELSE Max(0, (600 * (SumField(rs, "prevented_failures", Len(rs))
                        - SumField(rs, "false_positives", Len(rs))))
                \div SumField(rs, "times_triggered", Len(rs)))

\* _calculate_priority_score, in units of 1/300 (every term of the rows and
\* arguments of this model is a whole number of them, and no two rows that
\* differ tie, so the order is the one the floating-point scores give)
CalculatePriorityScore(g, relevance_score, task_type, t, eff) ==
    relevance_score * 60
    + g.confidence * 6
    + Max(0, 300 - 10 * (t - g.activated_at))
    + SuccessPoints(SelectSeq(eff, LAMBDA e : e.rule_id = g.id))
    + (IF task_type # None /\ task_type \in g.task_types THEN 300 ELSE 0)
    + (CASE g.enforcement_mode = "block"    -> 150
         [] g.enforcement_mode = "auto_fix" -> 90
         [] g.enforcement_mode = "warn"     -> 30
         [] OTHER                           -> 0)

\* list.sort(key=..., reverse=True): stable, greatest key first
InsertDescending(sorted, x, keys) ==
    SelectSeq(sorted, LAMBDA y : keys[y] >= keys[x]) \o <<x>>
    \o SelectSeq(sorted, LAMBDA y : keys[y] < keys[x])

RECURSIVE SortDescending(_, _, _)
SortDescending(ids, n, keys) ==
    IF n = 0 THEN <<>>
    ELSE InsertDescending(SortDescending(ids, n - 1, keys), ids[n], keys)

\* the keyword branch: score, sort, slice
KeywordBranch(rows, ids, words, task_type, max_rules, t, eff) ==
    SubSeq(SortDescending(ids, Len(ids),
                          [ i \in SeqToSet(ids) |->
                              CalculatePriorityScore(rows[i],
                                                     ScoreByRelevance(rows, ids, words)[i],
                                                     task_type, t, eff) ]),
           1, Min(max_rules, Len(ids)))

\* SemanticGuardrailMatcher.find_relevant: threshold 0.3, sort, scores[:top_k]
FindRelevant(ids, similarity, top_k) ==
    SubSeq(SortDescending(SelectSeq(ids, LAMBDA i : similarity[i] >= 3),
                          Len(SelectSeq(ids, LAMBDA i : similarity[i] >= 3)), similarity),
           1, Min(top_k, Len(SelectSeq(ids, LAMBDA i : similarity[i] >= 3))))

\* get_active_guardrails on the candidates ids: what it raised and the ids of the
\* rows it returned. installed: sentence_transformers imports
GetActiveOf(rows, ids, task_type, prompt, max_rules, semantic, installed, similarity, t, eff) ==
    IF semantic /\ Truthy(prompt) /\ ids # <<>>
    THEN IF ~installed
         THEN [ raised |-> "ImportError", returned |-> <<>> ]
         ELSE [ raised |-> None, returned |-> FindRelevant(ids, similarity, max_rules) ]
    ELSE IF Truthy(prompt) /\ ids # <<>>
    THEN [ raised |-> None,
           returned |-> KeywordBranch(rows, ids, prompt[1], task_type, max_rules, t, eff) ]
    ELSE [ raised |-> None, returned |-> ids ]

GetActiveGuardrails(rows, args, installed, similarity, t, eff) ==
    GetActiveOf(rows, Candidates(rows, args.task_type, args.min_confidence),
                args.task_type, args.prompt, args.max_rules, args.semantic,
                installed, similarity, t, eff)

InitRules ==
    /\ guardrails = <<>>
    /\ effectiveness = <<>>
    /\ now = 0
    /\ rulesCall = NoCall

NoRow == [ id |-> 0 ]
RowOrNone(rows, rule_id) == IF rule_id \in DOMAIN rows THEN rows[rule_id] ELSE NoRow

\* datetime.utcnow() moves on
Tick ==
    /\ now < MaxDay
    /\ now' = now + 1
    /\ rulesCall' = NoCall
    /\ UNCHANGED <<guardrails, effectiveness, daemonVars, fileVars, sideVars, lateVars>>

Generate ==
    \E pattern \in LearnedPatterns, task_types \in TaskTypeArgs :
        LET r == GenerateFromPattern(guardrails, pattern, task_types, now)
        IN  /\ Len(r.rows) <= MaxRules
            /\ guardrails' = r.rows
            /\ rulesCall' = [ op |-> "generate", pattern_id |-> pattern.id,
                              returned |-> r.returned ]
            /\ UNCHANGED <<effectiveness, now, daemonVars, fileVars, sideVars, lateVars>>

PromoteValidated ==
    \E rule_id \in 1..(Len(guardrails) + 1) :
        LET r == PromoteToValidated(guardrails, rule_id)
        IN  /\ guardrails' = r.rows
            /\ rulesCall' = [ op |-> "promote_to_validated", rule_id |-> rule_id,
                              before |-> RowOrNone(guardrails, rule_id),
                              returned |-> r.returned ]
            /\ UNCHANGED <<effectiveness, now, daemonVars, fileVars, sideVars, lateVars>>

PromoteEnforced ==
    \E rule_id \in 1..(Len(guardrails) + 1) :
        LET r == PromoteToEnforced(guardrails, rule_id)
        IN  /\ guardrails' = r.rows
            /\ rulesCall' = [ op |-> "promote_to_enforced", rule_id |-> rule_id,
                              before |-> RowOrNone(guardrails, rule_id),
                              returned |-> r.returned ]
            /\ UNCHANGED <<effectiveness, now, daemonVars, fileVars, sideVars, lateVars>>

Deprecate ==
    \E rule_id \in 1..(Len(guardrails) + 1), reason \in DeprecationReasons :
        LET r == DeprecateRule(guardrails, rule_id, reason, now)
        IN  /\ guardrails' = r.rows
            /\ rulesCall' = [ op |-> "deprecate", rule_id |-> rule_id,
                              before |-> RowOrNone(guardrails, rule_id),
                              returned |-> r.returned ]
            /\ UNCHANGED <<effectiveness, now, daemonVars, fileVars, sideVars, lateVars>>

GetActive ==
    \E task_type \in TaskTypeFilters, min_confidence \in MinConfidences,
       prompt \in Prompts, max_rules \in MaxRulesArgs, semantic \in BOOLEAN,
       installed \in BOOLEAN :
      \E similarity \in [ (IF semantic /\ installed /\ Truthy(prompt)
                             THEN SeqToSet(Candidates(guardrails, task_type, min_confidence))
                             ELSE {}) -> Similarities ] :
        LET r == GetActiveGuardrails(guardrails,
                                     [ task_type |-> task_type,
                                       min_confidence |-> min_confidence,
                                       prompt |-> prompt, max_rules |-> max_rules,
                                       semantic |-> semantic ],
                                     installed, similarity, now, effectiveness)
        IN  /\ installed \/ r.raised # None
            /\ rulesCall' = [ op |-> "get_active", min_confidence |-> min_confidence,
                              prompt |-> prompt, max_rules |-> max_rules,
                              raised |-> r.raised, returned |-> r.returned ]
            /\ UNCHANGED <<guardrails, effectiveness, now, daemonVars, fileVars, sideVars, lateVars>>

(***************************************************************************)
(* ConversationManager (guardrail/core/conversation_manager.py)            *)
(***************************************************************************)
MaxMessages == 3                    \* rows of conversation_history, all conversations together
max_turns == 20                     \* ConversationManager.__init__
SessionIds == {"s1", "s2"}
Roles == {"user", "assistant", "system"}

\* .order_by(ConversationHistoryModel.turn_number): the rows whose turn number
\* is t or more, by turn number; rows of equal turn number stay in rowid order
RECURSIVE RowsByTurn(_, _)
RowsByTurn(rows, t) ==
    IF t >= Len(rows) THEN <<>>
    ELSE SelectSeq(rows, LAMBDA r : r.turn_number = t) \o RowsByTurn(rows, t + 1)

\* _load_from_db: the Message list built from the rows of the conversation
LoadFromDb(rows) ==
    LET sorted == RowsByTurn(rows, 0)
    IN  [ i \in 1..Len(sorted) |-> sorted[i].role ]

\* self.conversations after get_history made sure the id is in it
Loaded(c, session_id) ==
    IF session_id \notin c.keys
    THEN [ c.conversations EXCEPT ![session_id] = LoadFromDb(c.history[session_id]) ]
    ELSE c.conversations

\* add_message: the list after the append, and the row that is inserted
AddMessageTo(c, session_id, role) ==
    LET before   == IF session_id \notin c.keys
                    THEN <<>> ELSE c.conversations[session_id]
        messages == Append(before, role)
        row      == [ turn_number |-> Len(messages) - 1, role |-> role ]
    IN  [ keys |-> c.keys \cup {session_id},
          conversations |-> [ c.conversations EXCEPT ![session_id] = messages ],
          history |-> [ c.history EXCEPT ![session_id] = Append(@, row) ],
          call |-> [ op |-> "add_message", session_id |-> session_id,
                     returned |-> <<>> ] ]

InitConv ==
    conv = [ keys |-> {},
             conversations |-> [ s \in SessionIds |-> <<>> ],
             history |-> [ s \in SessionIds |-> <<>> ],
             call |-> [ op |-> None, session_id |-> None, returned |-> <<>> ] ]

\* start_conversation(session_id)
StartConversation ==
    \E s \in SessionIds :
        /\ conv' = [ conv EXCEPT !.keys = @ \cup {s},
                                 !.conversations[s] = <<>>,
                                 !.call = [ op |-> "start_conversation", session_id |-> s,
                                            returned |-> <<>> ] ]
        /\ UNCHANGED <<learned, workers, agents, daemonVars, fileVars, ruleVars, lateVars>>

\* add_message(session_id, role, content)
AddMessage ==
    /\ Len(conv.history["s1"]) + Len(conv.history["s2"]) < MaxMessages
    /\ \E s \in SessionIds, role \in Roles :
        /\ conv' = AddMessageTo(conv, s, role)
        /\ UNCHANGED <<learned, workers, agents, daemonVars, fileVars, ruleVars, lateVars>>

\* get_history(session_id, include_system): the messages of the conversation,
\* system messages left out unless asked for
GetHistory ==
    \E s \in SessionIds, include_system \in BOOLEAN :
        /\ conv' = [ conv EXCEPT
                       !.keys = @ \cup {s},
                       !.conversations = Loaded(conv, s),
                       !.call = [ op |-> "get_history", session_id |-> s,
                                  returned |->
                                      IF include_system THEN Loaded(conv, s)[s]
                                      ELSE SelectSeq(Loaded(conv, s)[s],
                                                     LAMBDA m : m # "system") ] ]
        /\ UNCHANGED <<learned, workers, agents, daemonVars, fileVars, ruleVars, lateVars>>

\* build_context(session_id, current_prompt): get_history without the system
\* messages, then _prune_history (its turn limit; tokens_used is not part of
\* a message here); returned is the history that is formatted
BuildContext ==
    \E s \in SessionIds :
        LET history == SelectSeq(Loaded(conv, s)[s], LAMBDA m : m # "system")
        IN  /\ conv' = [ conv EXCEPT
                           !.keys = @ \cup {s},
                           !.conversations = Loaded(conv, s),
                           !.call = [ op |-> "build_context", session_id |-> s,
                                      returned |->
                                          IF Len(history) > max_turns
                                          THEN SubSeq(history, Len(history) - max_turns + 1,
                                                      Len(history))
                                          ELSE history ] ]
            /\ UNCHANGED <<learned, workers, agents, daemonVars, fileVars, ruleVars, lateVars>>

\* clear_conversation(session_id)
ClearConversation ==
    \E s \in SessionIds :
        /\ conv' = [ conv EXCEPT !.keys = @ \ {s},
                                 !.conversations[s] = <<>>,
                                 !.call = [ op |-> "clear_conversation", session_id |-> s,
                                            returned |-> <<>> ] ]
        /\ UNCHANGED <<learned, workers, agents, daemonVars, fileVars, ruleVars, lateVars>>

NextConv ==
    StartConversation \/ AddMessage \/ GetHistory \/ BuildContext \/ ClearConversation



(***************************************************************************)
(* PatternAnalyzer (guardrail/core/pattern_analyzer.py)                    *)
(*                                                                         *)
(* One (category, pattern) group of failure_modes rows and one             *)
(* (guardrail_type, rule_violated) group of violations rows: each group    *)
(* has one signature, so one pattern_hash and at most one learned_patterns *)
(* row.  The rows of the two tables are the analyser's input.              *)
(***************************************************************************)
MaxFailures == 4                    \* rows of failure_modes
MaxViolationRows == 7               \* rows of violations
MaxClock == 2                       \* datetime.utcnow(), in days
min_frequency == 3                  \* PatternAnalyzer.__init__
WindowDays == {1, 30}               \* the days argument

\* _severity_rank
SeverityRank(severity) ==
    CASE severity = "low" -> 1 [] severity = "medium" -> 2
      [] severity = "high" -> 3 [] severity = "critical" -> 4 [] OTHER -> 1

\* sum(severity_scores)
RECURSIVE SumRanks(_)
SumRanks(rows) ==
    IF rows = <<>> THEN 0 ELSE SeverityRank(Head(rows).severity) + SumRanks(Tail(rows))

\* max(f.timestamp for f in rows), rows not empty
RECURSIVE MaxTimestamp(_)
MaxTimestamp(rows) ==
    IF Len(rows) = 1 THEN rows[1].timestamp
    ELSE Max(rows[1].timestamp, MaxTimestamp(Tail(rows)))

\* _calculate_confidence as the fraction <<numerator, denominator>>:
\* min(frequency / 10.0, 0.7) + avg_severity / 4.0 * 0.3, at most 1.0
CalculateConfidence(rows) ==
    LET frequency == Len(rows)
        num == 4 * frequency * Min(frequency, 7) + 3 * SumRanks(rows)
        den == 40 * frequency
    IN  << Min(num, den), den >>

\* min(frequency / 10.0, 1.0) of analyze_violations, as a fraction
ViolationConfidence(rows) == << Min(Len(rows), 10), 10 >>

\* confidence < self.min_confidence, min_confidence = 0.6 = 6/10
BelowMinConfidence(confidence) == 10 * confidence[1] < 6 * confidence[2]

\* the filter timestamp >= utcnow() - timedelta(days=days)
InWindow(rows, t, days) == SelectSeq(rows, LAMBDA r : r.timestamp >= t - days)

\* The body of the loop of analyze_failures / analyze_violations for the one
\* group: the learned_patterns row of the group after the run.  existing is
\* <<>> or the row in a one-element sequence; window is the group's rows.
AnalyzeGroup(existing, window, confidence, t) ==
    IF Len(window) < min_frequency \/ BelowMinConfidence(confidence) THEN existing
    ELSE IF existing # <<>>
    THEN << [ existing[1] EXCEPT !.frequency = Len(window),
                                 !.last_seen = t,
                                 !.confidence_score = confidence ] >>
    ELSE << [ frequency |-> Len(window),
              first_seen |-> window[1].timestamp,
              last_seen |-> MaxTimestamp(window),
              confidence_score |-> confidence ] >>

InitLearned ==
    learned = [ failures |-> <<>>, violations |-> <<>>, now |-> 0,
                failure_pattern |-> <<>>, violation_pattern |-> <<>> ]

\* a day passes
ClockTick ==
    /\ learned.now < MaxClock
    /\ learned' = [ learned EXCEPT !.now = @ + 1 ]
    /\ UNCHANGED <<conv, workers, agents, daemonVars, fileVars, ruleVars, lateVars>>

\* a FailureModeModel row of the group is in the table (timestamp = utcnow)
NewFailureRow ==
    /\ Len(learned.failures) < MaxFailures
    /\ \E severity \in {"low", "critical"} :
        learned' = [ learned EXCEPT !.failures =
                       Append(@, [ timestamp |-> learned.now, severity |-> severity ]) ]
    /\ UNCHANGED <<conv, workers, agents, daemonVars, fileVars, ruleVars, lateVars>>

\* a ViolationModel row of the group is in the table (timestamp = utcnow)
NewViolationRow ==
    /\ Len(learned.violations) < MaxViolationRows
    /\ learned' = [ learned EXCEPT !.violations =
                      Append(@, [ timestamp |-> learned.now, severity |-> "high" ]) ]
    /\ UNCHANGED <<conv, workers, agents, daemonVars, fileVars, ruleVars, lateVars>>

\* analyze_failures(days)
AnalyzeFailures ==
    /\ \E days \in WindowDays :
        LET window == InWindow(learned.failures, learned.now, days)
        IN  learned' = [ learned EXCEPT !.failure_pattern =
                           AnalyzeGroup(@, window, CalculateConfidence(window),
                                        learned.now) ]
    /\ UNCHANGED <<conv, workers, agents, daemonVars, fileVars, ruleVars, lateVars>>

\* analyze_violations(days)
AnalyzeViolations ==
    /\ \E days \in WindowDays :
        LET window == InWindow(learned.violations, learned.now, days)
        IN  learned' = [ learned EXCEPT !.violation_pattern =
                           AnalyzeGroup(@, window, ViolationConfidence(window),
                                        learned.now) ]
    /\ UNCHANGED <<conv, workers, agents, daemonVars, fileVars, ruleVars, lateVars>>

NextLearned ==
    ClockTick \/ NewFailureRow \/ NewViolationRow \/ AnalyzeFailures \/ AnalyzeViolations


(***************************************************************************)
(* The sessions, violations and failure_modes tables (utils/db.py) and     *)
(* GuardrailDaemon._log_session                                            *)
(***************************************************************************)
MaxSessions == 2                    \* session rows ever inserted
MaxChildren == 2                    \* rows of violations and failure_modes together
NullId == 0                         \* session_id IS NULL

\* the ids of the rows of sessions
SessionRowIds(st) == { s.id : s \in st.sessions }

\* db_session.add(SessionModel(...)); commit: the new row gets the next id
InsertSessionRow(st, count) ==
    [ st EXCEPT !.sessions = @ \cup { [ id |-> st.next_id, violations |-> count ] },
                !.next_id = @ + 1 ]

\* What _log_session leaves in the tables when nothing raises: the session
\* row, with the number of violations in its JSON column.  The two loops over
\* violations and failures only write to the log.
LogSessionRows(st, violations, failures) == InsertSessionRow(st, Len(violations))

\* _log_session without its try/except: the exception of a failed commit leaves it
LogSessionUncaught(outcome) == outcome = "fails"

\* try: ... except Exception as e: logger.error(...): nothing leaves _log_session
LogSessionPropagates(outcome) == FALSE

\* Deleting the sessions row id as the declarations of db.py make the ORM and
\* SQLite do it: the relationships of SessionModel carry no cascade option,
\* the foreign keys no ondelete, the engine is SQLite without PRAGMA
\* foreign_keys.
\*   "query":  query(SessionModel).filter(id).delete() issues DELETE FROM
\*             sessions only; child rows keep their session_id.
\*   "object": db_session.delete(session); commit sets the session_id of the
\*             children to NULL first: IntegrityError on violations
\*             (nullable=False), the transaction is rolled back.
DeleteSessionRow(st, id, how) ==
    LET hasViolation == \E i \in DOMAIN st.violations : st.violations[i].session_id = id
        orphaned == [ i \in DOMAIN st.failure_modes |->
                        IF st.failure_modes[i].session_id = id
                        THEN [ st.failure_modes[i] EXCEPT !.session_id = NullId ]
                        ELSE st.failure_modes[i] ]
        without  == { s \in st.sessions : s.id # id }
    IN  IF how = "query"
        THEN [ st EXCEPT !.sessions = without,
                         !.call = [ op |-> "delete", id |-> id, raised |-> None ] ]
        ELSE IF hasViolation
        THEN [ st EXCEPT !.call = [ op |-> "delete", id |-> id,
                                    raised |-> "IntegrityError" ] ]
        ELSE [ st EXCEPT !.sessions = without, !.failure_modes = orphaned,
                         !.call = [ op |-> "delete", id |-> id, raised |-> None ] ]

InitStore ==
    /\ logTask = "none"
    /\ store = [ sessions |-> {}, next_id |-> 1, violations |-> <<>>,
                 failure_modes |-> <<>>,
                 call |-> [ op |-> None, id |-> NullId, raised |-> None ] ]

\* The event loop runs the task of _log_session after process_request returned
LogSession ==
    /\ pc = "returned"
    /\ logTask = "pending"
    /\ \E outcome \in {"ok", "fails"} :
        /\ logTask' = IF outcome = "ok" THEN "done" ELSE "failed"
        /\ store' = IF outcome = "ok"
                    THEN LogSessionRows(store, detected.violations, detected.failures)
                    ELSE store
        /\ raised' = IF LogSessionPropagates(outcome) THEN "Exception" ELSE raised
        /\ result' = IF LogSessionPropagates(outcome) THEN <<>> ELSE result
    /\ UNCHANGED <<pc, request, attempt, last_error, attemptLog, sleeps, ai_response,
                   detected, fileVars, ruleVars, sideVars, lateVars>>

\* asyncio.run closes the loop before the task ran: the task is cancelled
CancelLog ==
    /\ pc = "returned"
    /\ logTask = "pending"
    /\ logTask' = "cancelled"
    /\ UNCHANGED <<pc, request, attempt, last_error, attemptLog, sleeps, ai_response,
                   detected, result, raised, store, fileVars, ruleVars, sideVars, lateVars>>

\* a SessionModel row is added and committed
InsertSession ==
    /\ store.next_id <= MaxSessions
    /\ store' = [ InsertSessionRow(store, 0) EXCEPT
                    !.call = [ op |-> "insert", id |-> store.next_id, raised |-> None ] ]
    /\ UNCHANGED <<pc, request, attempt, last_error, attemptLog, sleeps, ai_response,
                   detected, result, raised, logTask, fileVars, ruleVars, sideVars, lateVars>>

\* a ViolationModel or FailureModeModel row of an existing session is added
InsertChild ==
    /\ Len(store.violations) + Len(store.failure_modes) < MaxChildren
    /\ \E id \in SessionRowIds(store), table \in {"violations", "failure_modes"} :
        store' = [ store EXCEPT
                     !.violations = IF table = "violations"
                                    THEN Append(@, [ session_id |-> id ]) ELSE @,
                     !.failure_modes = IF table = "failure_modes"
                                       THEN Append(@, [ session_id |-> id ]) ELSE @,
                     !.call = [ op |-> "insert", id |-> id, raised |-> None ] ]
    /\ UNCHANGED <<pc, request, attempt, last_error, attemptLog, sleeps, ai_response,
                   detected, result, raised, logTask, fileVars, ruleVars, sideVars, lateVars>>

\* a session row is deleted
DeleteSession ==
    /\ \E id \in SessionRowIds(store), how \in {"query", "object"} :
        store' = DeleteSessionRow(store, id, how)
    /\ UNCHANGED <<pc, request, attempt, last_error, attemptLog, sleeps, ai_response,
                   detected, result, raised, logTask, fileVars, ruleVars, sideVars, lateVars>>

NextStore == InsertSession \/ InsertChild \/ DeleteSession


(***************************************************************************)
(* BackgroundWorker and WorkerManager (guardloop/core/workers.py)          *)
(*                                                                         *)
(* A work cycle of the four workers awaits only coroutines that do not     *)
(* suspend, so a cycle up to its asyncio.sleep is one step of the event    *)
(* loop.  start_all starts each worker once.                               *)
(***************************************************************************)
MaxCycles == 2                      \* work cycles of one worker
WorkerNames == {"AnalysisWorker", "MetricsWorker", "CleanupWorker"}
NoStop == 0 - 1

\* while self.running:
LoopForever(worker) == TRUE

\* while self.running:
LoopContinues(worker) == worker.running

\* stop(): self.running = False.  stop_at remembers the cycles done when stop
\* was first requested on a worker that was running in its loop.
Stopped(worker) ==
    [ worker EXCEPT !.running = FALSE,
                    !.stop_at = IF worker.pos = "sleeping" /\ worker.running /\ @ = NoStop
                                THEN worker.cycles ELSE @ ]

InitWorkers ==
    workers = [ w \in WorkerNames |->
                  [ running |-> FALSE, pos |-> "new", cycles |-> 0, stop_at |-> NoStop ] ]

\* start_all: asyncio.gather wraps worker.start() of every worker in a task
StartAll ==
    /\ \A w \in WorkerNames : workers[w].pos = "new"
    /\ workers' = [ w \in WorkerNames |-> [ workers[w] EXCEPT !.pos = "scheduled" ] ]
    /\ UNCHANGED <<conv, learned, agents, daemonVars, fileVars, ruleVars, lateVars>>

\* asyncio.create_task(worker.start()) for one worker
Schedule(w) ==
    /\ workers[w].pos = "new"
    /\ workers' = [ workers EXCEPT ![w].pos = "scheduled" ]
    /\ UNCHANGED <<conv, learned, agents, daemonVars, fileVars, ruleVars, lateVars>>

\* start() runs: self.running = True, then run() up to its first
\* asyncio.sleep: the first work cycle
Start(w) ==
    /\ workers[w].pos = "scheduled"
    /\ workers' = [ workers EXCEPT ![w].running = TRUE, ![w].pos = "sleeping",
                                   ![w].cycles = 1 ]
    /\ UNCHANGED <<conv, learned, agents, daemonVars, fileVars, ruleVars, lateVars>>

\* asyncio.sleep(period) returns: the loop test, then the next cycle up to its
\* sleep, or run() and start() return
WakeUp(w) ==
    /\ workers[w].pos = "sleeping"
    /\ IF LoopContinues(workers[w])
       THEN /\ workers[w].cycles < MaxCycles
            /\ workers' = [ workers EXCEPT ![w].cycles = @ + 1 ]
       ELSE workers' = [ workers EXCEPT ![w].pos = "returned" ]
    /\ UNCHANGED <<conv, learned, agents, daemonVars, fileVars, ruleVars, lateVars>>

\* stop() of one worker
Stop(w) ==
    /\ workers' = [ workers EXCEPT ![w] = Stopped(@) ]
    /\ UNCHANGED <<conv, learned, agents, daemonVars, fileVars, ruleVars, lateVars>>

\* stop_all: stop() of every worker, no suspension in between
StopAll ==
    /\ workers' = [ w \in WorkerNames |-> Stopped(workers[w]) ]
    /\ UNCHANGED <<conv, learned, agents, daemonVars, fileVars, ruleVars, lateVars>>

NextWorkers ==
    \/ StartAll
    \/ StopAll
    \/ \E w \in WorkerNames : Schedule(w) \/ Start(w) \/ WakeUp(w) \/ Stop(w)


(***************************************************************************)
(* AgentChainOptimizer, OrchestratorAgent.orchestrate, EvaluatorAgent      *)
(* (guardloop/agents, guardrail/agents/base.py)                            *)
(***************************************************************************)
MaxFindings == 3                    \* violations, and failures, in an AgentContext

TASK_AGENT_CHAINS ==
    [ fix_typo |-> <<"standards_oracle">>,
      update_docs |-> <<"documentation">>,
      format_code |-> <<"standards_oracle">>,
      implement_function |-> <<"architect", "coder", "tester">>,
      add_tests |-> <<"tester">>,
      fix_bug |-> <<"debug_hunter", "tester">>,
      refactor |-> <<"architect", "coder", "tester">>,
      implement_feature |->
          <<"business_analyst", "architect", "coder", "tester", "evaluator">>,
      implement_auth |-> <<"architect", "secops", "coder", "tester", "evaluator">>,
      database_design |-> <<"architect", "dba", "coder", "tester">>,
      build_auth_system |->
          <<"business_analyst", "architect", "secops", "dba", "coder", "tester", "sre",
            "standards_oracle", "evaluator">>,
      implement_payment |->
          <<"business_analyst", "architect", "secops", "dba", "coder", "tester",
            "standards_oracle", "sre", "evaluator">>,
      compliance_feature |->
          <<"business_analyst", "architect", "secops", "coder", "tester",
            "standards_oracle", "evaluator", "documentation">>,
      implement_ui |-> <<"ux_designer", "coder", "tester">>,
      improve_accessibility |-> <<"ux_designer", "coder", "tester">>,
      implement_api |-> <<"architect", "coder", "tester">>,
      api_security |-> <<"architect", "secops", "coder", "tester">> ]

TaskTypes == DOMAIN TASK_AGENT_CHAINS \cup {"unknown_task"}
UserAgents == {None, "architect", "secops"}
AgentNames ==
    {"architect", "business_analyst", "coder", "dba", "debug_hunter", "documentation",
     "evaluator", "secops", "sre", "standards_oracle", "tester", "ux_designer"}

\* the names bound at module level in guardloop/agents/orchestrator.py
OrchestratorGlobals ==
    {"Dict", "List", "Optional", "AgentContext", "AgentDecision", "BaseAgent",
     "AgentChainOptimizer", "Config", "OrchestratorAgent"}

\* the fields of the dataclass AgentDecision
AgentDecisionFields ==
    {"agent_name", "approved", "reason", "suggestions", "next_agent", "confidence"}

\* self.TASK_AGENT_CHAINS.get(task_type, ["architect", "coder", "tester"])
BaseChain(task_type) ==
    IF task_type \in DOMAIN TASK_AGENT_CHAINS THEN TASK_AGENT_CHAINS[task_type]
    ELSE <<"architect", "coder", "tester">>

\* the first index (from 1) of chain at or after i whose agent is coder or
\* tester; Len(chain) + 1 when there is none
RECURSIVE InsertPos(_, _)
InsertPos(chain, i) ==
    IF i > Len(chain) THEN i
    ELSE IF chain[i] \in {"coder", "tester"} THEN i
    ELSE InsertPos(chain, i + 1)

\* chain with agent appended unless it is in it already
AppendIfMissing(chain, agent) ==
    IF agent \in SeqToSet(chain) THEN chain ELSE Append(chain, agent)

\* _add_strict_agents without its final evaluation step
AddStrictAgentsNoEvaluator(chain) ==
    LET pos == InsertPos(chain, 1)
        withSecops == IF "secops" \in SeqToSet(chain) THEN chain
                      ELSE SubSeq(chain, 1, pos - 1) \o <<"secops">>
                           \o SubSeq(chain, pos, Len(chain))
    IN  AppendIfMissing(withSecops, "standards_oracle")

\* _add_strict_agents
AddStrictAgents(chain) ==
    LET pos == InsertPos(chain, 1)
        withSecops == IF "secops" \in SeqToSet(chain) THEN chain
                      ELSE SubSeq(chain, 1, pos - 1) \o <<"secops">>
                           \o SubSeq(chain, pos, Len(chain))
    IN  AppendIfMissing(AppendIfMissing(withSecops, "standards_oracle"), "evaluator")

\* remove duplicates while preserving order
RECURSIVE UniqueChain(_, _)
UniqueChain(chain, seen) ==
    IF chain = <<>> THEN <<>>
    ELSE IF Head(chain) \in seen THEN UniqueChain(Tail(chain), seen)
    ELSE <<Head(chain)>> \o UniqueChain(Tail(chain), seen \cup {Head(chain)})

\* select_chain
SelectChain(task_type, mode, user_specified_agent) ==
    IF user_specified_agent # None /\ user_specified_agent # ""
    THEN << user_specified_agent >>
    ELSE UniqueChain(IF mode = "strict" THEN AddStrictAgents(BaseChain(task_type))
                     ELSE BaseChain(task_type), {})

\* get_complexity
GetComplexity(task_type) ==
    LET chain_length == Len(BaseChain(task_type))
    IN  IF chain_length <= 2 THEN "simple"
        ELSE IF chain_length <= 4 THEN "medium"
        ELSE IF chain_length <= 8 THEN "complex"
        ELSE "critical"

\* The loop of orchestrate over the rest of the chain.  blockers are the
\* agents whose evaluate does not approve.  Reading decision.violations of an
\* approved decision raises AttributeError when the dataclass has no such field.
RECURSIVE RunChain(_, _, _, _)
RunChain(chain, registered, blockers, decisions) ==
    IF chain = <<>> THEN [ raised |-> None, decisions |-> decisions ]
    ELSE IF Head(chain) \notin registered
    THEN RunChain(Tail(chain), registered, blockers, decisions)
    ELSE IF Head(chain) \in blockers
    THEN [ raised |-> None,
           decisions |-> Append(decisions, [ agent_name |-> Head(chain),
                                             approved |-> FALSE ]) ]
    ELSE IF "violations" \notin AgentDecisionFields
    THEN [ raised |-> "AttributeError", decisions |-> <<>> ]
    ELSE RunChain(Tail(chain), registered, blockers,
                  Append(decisions, [ agent_name |-> Head(chain), approved |-> TRUE ]))

\* orchestrate: select_chain, get_complexity, logger.info (NameError when the
\* module binds no logger), then the loop
OrchestrateChain(chain, registered, blockers) ==
    IF "logger" \notin OrchestratorGlobals
    THEN [ raised |-> "NameError", decisions |-> <<>> ]
    ELSE RunChain(chain, registered, blockers, <<>>)

\* _calculate_confidence as the fraction <<numerator, denominator>>
AgentConfidence(approved, issues_count, total_checks) ==
    IF total_checks = 0 THEN << 1, 1 >>
    ELSE IF approved
    THEN << 10 * total_checks - 3 * issues_count, 10 * total_checks >>
    ELSE << 5 * total_checks + 3 * issues_count, 10 * total_checks >>

\* the critical entries of context.violations or context.failures
Critical(findings) == SelectSeq(findings, LAMBDA s : s = "critical")

\* EvaluatorAgent.evaluate
EvaluatorEvaluate(context) ==
    LET issues_count == Len(Critical(context.violations)) + Len(Critical(context.failures))
                        + (IF context.code_blocks THEN 0 ELSE 1)
        approved == issues_count = 0
    IN  [ agent_name |-> "evaluator", approved |-> approved, issues |-> issues_count,
          confidence |-> AgentConfidence(approved, issues_count, 3) ]

InitAgents == agents = [ op |-> None ]

\* chain_optimizer.select_chain(task_type, mode, user_specified_agent)
Select ==
    /\ \E task_type \in TaskTypes, mode \in Modes, user \in UserAgents :
        agents' = [ op |-> "select_chain", task_type |-> task_type, mode |-> mode,
                    user_agent |-> user,
                    returned |-> SelectChain(task_type, mode, user) ]
    /\ UNCHANGED <<conv, learned, workers, daemonVars, fileVars, ruleVars, lateVars>>

\* chain_optimizer.get_complexity(task_type)
Complexity ==
    /\ \E task_type \in TaskTypes :
        agents' = [ op |-> "get_complexity", task_type |-> task_type,
                    returned |-> GetComplexity(task_type) ]
    /\ UNCHANGED <<conv, learned, workers, daemonVars, fileVars, ruleVars, lateVars>>

\* orchestrator.orchestrate(context, task_type, mode, user_agent) with the
\* agents of load_agents, or none, registered
Orchestrate ==
    /\ \E task_type \in {"fix_bug", "implement_function", "unknown_task"},
          mode \in Modes, user \in UserAgents,
          registered \in {AgentNames, {}},
          blockers \in {{}, {"tester"}, {"architect", "coder"}} :
        LET chain == SelectChain(task_type, mode, user)
            r     == OrchestrateChain(chain, registered, blockers)
        IN  agents' = [ op |-> "orchestrate", chain |-> chain, registered |-> registered,
                        blockers |-> blockers, raised |-> r.raised,
                        returned |-> r.decisions ]
    /\ UNCHANGED <<conv, learned, workers, daemonVars, fileVars, ruleVars, lateVars>>

\* EvaluatorAgent.evaluate(context)
Evaluate ==
    /\ \E n \in 0..MaxFindings, m \in 0..MaxFindings :
       \E violations \in [1..n -> {"critical", "low"}],
          failures \in [1..m -> {"critical", "low"}], code_blocks \in BOOLEAN :
        agents' = [ op |-> "evaluate",
                    returned |-> EvaluatorEvaluate([ violations |-> violations,
                                                     failures |-> failures,
                                                     code_blocks |-> code_blocks ]) ]
    /\ UNCHANGED <<conv, learned, workers, daemonVars, fileVars, ruleVars, lateVars>>

NextAgents == Select \/ Complexity \/ Orchestrate \/ Evaluate


(***************************************************************************)
(* SemanticGuardrailMatcher (guardloop/core/semantic_matcher.py)           *)
(***************************************************************************)

\* Bound of the matcher model: the guardrail ids the matcher is handed
MaxIndexed == 2

\* rule texts and prompts, each the set of its words
RuleTexts      == { {"validate", "auth", "token"}, {"cache", "database", "queries"} }
MatcherPrompts == { {"fix", "auth", "token"}, {"slow", "cache"} }
Vocabulary     == UNION (RuleTexts \cup MatcherPrompts)
TopKs          == { 1, 5 }

\* the guardrails argument: lists of rows (id, rule_text), no id twice
MatcherRows == [ id : 1..MaxIndexed, rule_text : RuleTexts ]
GuardrailLists ==
    { l \in UNION { [ 1..n -> MatcherRows ] : n \in 0..2 } :
        \A i, j \in DOMAIN l : i # j => l[i].id # l[j].id }

\* model.encode: the vector of a text.  The sentence-transformer is opaque; it
\* is stood for by the indicator vector of the words of the text, which keeps
\* what the code relies on: equal texts have equal vectors, different texts of
\* this model different ones.
Encode(text) == [ w \in Vocabulary |-> IF w \in text THEN 1 ELSE 0 ]

\* np.dot and the squared norm of such vectors
Dot(a, b) == Cardinality({ w \in Vocabulary : a[w] = 1 /\ b[w] = 1 })

\* the cosine similarity of find_relevant, in tenths rounded down
CosineSimilarity(a, b) ==
    CHOOSE r \in 0..10 :
        /\ r * r * Dot(a, a) * Dot(b, b) <= 100 * Dot(a, b) * Dot(a, b)
        /\ r < 10 => (r + 1) * (r + 1) * Dot(a, a) * Dot(b, b) > 100 * Dot(a, b) * Dot(a, b)

\* _ensure_model_loaded: imports and loads on the first call; the ImportError
\* is logged and raised again
EnsureModelLoaded(m, installed) ==
    IF m.model_loaded
    THEN [ model_loaded |-> TRUE, raised |-> None, load_attempted |-> FALSE ]
    ELSE IF installed
    THEN [ model_loaded |-> TRUE, raised |-> None, load_attempted |-> TRUE ]
    ELSE [ model_loaded |-> FALSE, raised |-> "ImportError", load_attempted |-> TRUE ]

IdsOf(rows) == [ k \in DOMAIN rows |-> rows[k].id ]

\* the row of the list with this id
RowWithId(rows, id) == rows[CHOOSE k \in DOMAIN rows : rows[k].id = id]

\* index_guardrails: guardrail_embeddings[guardrail.id] = embedding for every row
\* of the list, after _ensure_model_loaded
IndexGuardrails(m, rows, installed) ==
    IF EnsureModelLoaded(m, installed).raised # None
    THEN [ model_loaded |-> m.model_loaded, guardrail_embeddings |-> m.guardrail_embeddings,
           raised |-> EnsureModelLoaded(m, installed).raised ]
    ELSE [ model_loaded |-> TRUE,
           guardrail_embeddings |->
               [ id \in DOMAIN m.guardrail_embeddings \cup SeqToSet(IdsOf(rows)) |->
                   IF id \in SeqToSet(IdsOf(rows))
                   THEN Encode(RowWithId(rows, id).rule_text)
                   ELSE m.guardrail_embeddings[id] ],
           raised |-> None ]

\* the embedding find_relevant scores each row of the list with: the cached one
\* when the id is a key of guardrail_embeddings, a new one otherwise
EmbeddingsUsed(m, rows) ==
    [ id \in SeqToSet(IdsOf(rows)) |->
        IF id \in DOMAIN m.guardrail_embeddings
        THEN m.guardrail_embeddings[id]
        ELSE Encode(RowWithId(rows, id).rule_text) ]

\* find_relevant: _ensure_model_loaded comes first, the test of the empty list
\* after it; embeddings computed on demand are cached
MatcherFindRelevant(m, prompt, rows, top_k, installed) ==
    IF EnsureModelLoaded(m, installed).raised # None
    THEN [ model_loaded |-> m.model_loaded, guardrail_embeddings |-> m.guardrail_embeddings,
           raised |-> EnsureModelLoaded(m, installed).raised,
           returned |-> <<>>, used |-> <<>> ]
    ELSE [ model_loaded |-> TRUE,
           guardrail_embeddings |->
               [ id \in DOMAIN m.guardrail_embeddings \cup SeqToSet(IdsOf(rows)) |->
                   IF id \in DOMAIN m.guardrail_embeddings
                   THEN m.guardrail_embeddings[id]
                   ELSE EmbeddingsUsed(m, rows)[id] ],
           raised |-> None,
           returned |->
               FindRelevant(IdsOf(rows),
                            [ id \in SeqToSet(IdsOf(rows)) |->
                                CosineSimilarity(Encode(prompt),
                                                 EmbeddingsUsed(m, rows)[id]) ],
                            top_k),
           used |-> EmbeddingsUsed(m, rows) ]

InitMatcher ==
    matcher = [ model_loaded |-> FALSE, guardrail_embeddings |-> <<>>, call |-> NoCall ]

Index ==
    \E rows \in GuardrailLists, installed \in BOOLEAN :
        LET r == IndexGuardrails(matcher, rows, installed)
        IN  /\ matcher' = [ model_loaded |-> r.model_loaded,
                            guardrail_embeddings |-> r.guardrail_embeddings,
                            call |-> [ op |-> "index_guardrails", guardrails |-> rows,
                                       raised |-> r.raised ] ]
            /\ UNCHANGED <<tracking, ctx, tasks, daemonVars, fileVars, ruleVars, sideVars>>

Find ==
    \E prompt \in MatcherPrompts, rows \in GuardrailLists, top_k \in TopKs,
       installed \in BOOLEAN :
        LET r == MatcherFindRelevant(matcher, prompt, rows, top_k, installed)
        IN  /\ matcher' = [ model_loaded |-> r.model_loaded,
                            guardrail_embeddings |-> r.guardrail_embeddings,
                            call |-> [ op |-> "find_relevant", prompt |-> prompt,
                                       guardrails |-> rows,
                                       load_attempted |->
                                           EnsureModelLoaded(matcher, installed).load_attempted,
                                       raised |-> r.raised, returned |-> r.returned,
                                       used |-> r.used ] ]
            /\ UNCHANGED <<tracking, ctx, tasks, daemonVars, fileVars, ruleVars, sideVars>>

\* clear_cache
ClearCache ==
    /\ matcher' = [ matcher EXCEPT !.guardrail_embeddings = <<>>,
                                   !.call = [ op |-> "clear_cache" ] ]
    /\ UNCHANGED <<tracking, ctx, tasks, daemonVars, fileVars, ruleVars, sideVars>>

NextMatcher == Index \/ Find \/ ClearCache


(***************************************************************************)
(* One worker instance and the start() tasks made for it                   *)
(* (guardloop/core/workers.py).  Nothing in start, start_all or stop looks *)
(* at a loop that is already there, so every start() call is a task of its *)
(* own.                                                                    *)
(***************************************************************************)
MaxStarts == 3                     \* start() calls on the instance

\* the loops of the instance that are inside `while self.running:` (asleep
\* between two work cycles)
LoopsInside(t) == { i \in DOMAIN t.loops : t.loops[i].pos = "sleeping" }

InitTasks ==
    tasks = [ running |-> FALSE, loops |-> <<>>, stopped |-> FALSE ]

\* worker.start() is called and wrapped in a task (start_all's gather, or
\* create_task); stopped remembers whether stop() is the latest request
StartCalled ==
    /\ Len(tasks.loops) < MaxStarts
    /\ tasks' = [ tasks EXCEPT !.loops = Append(@, [ pos |-> "scheduled", cycles |-> 0 ]),
                               !.stopped = FALSE ]
    /\ UNCHANGED <<matcher, tracking, ctx, daemonVars, fileVars, ruleVars, sideVars>>

\* the task runs: start() sets self.running = True, then run() up to its first
\* asyncio.sleep
StartRuns(i) ==
    /\ tasks.loops[i].pos = "scheduled"
    /\ tasks' = [ tasks EXCEPT !.running = TRUE,
                               !.loops[i] = [ pos |-> "sleeping", cycles |-> 1 ] ]
    /\ UNCHANGED <<matcher, tracking, ctx, daemonVars, fileVars, ruleVars, sideVars>>

\* asyncio.sleep returns in loop i: the loop test, then the next cycle up to
\* its sleep, or run() and start() return
SleepReturns(i) ==
    /\ tasks.loops[i].pos = "sleeping"
    /\ IF LoopContinues(tasks)
       THEN /\ tasks.loops[i].cycles < MaxCycles
            /\ tasks' = [ tasks EXCEPT !.loops[i].cycles = @ + 1 ]
       ELSE tasks' = [ tasks EXCEPT !.loops[i].pos = "returned" ]
    /\ UNCHANGED <<matcher, tracking, ctx, daemonVars, fileVars, ruleVars, sideVars>>

\* stop(): self.running = False
StopCalled ==
    /\ tasks' = [ tasks EXCEPT !.running = FALSE, !.stopped = TRUE ]
    /\ UNCHANGED <<matcher, tracking, ctx, daemonVars, fileVars, ruleVars, sideVars>>

NextTasks ==
    \/ StartCalled
    \/ StopCalled
    \/ \E i \in DOMAIN tasks.loops : StartRuns(i) \/ SleepReturns(i)


(***************************************************************************)
(* AdaptiveGuardrailGenerator.track_effectiveness                          *)
(* (guardloop/core/adaptive_guardrails.py), for one rule_id on one day.    *)
(* Each caller has a session of its own (sessionmaker(autoflush=False)): a *)
(* call is its query, then its increments and commit.                      *)
(***************************************************************************)
MaxCalls == 3                      \* track_effectiveness calls
TrackSessions == {"s1", "s2"}

\* the flags a call is made with
TrackFlags ==
    { [ prevented_failure |-> FALSE, false_positive |-> FALSE, true_positive |-> FALSE ],
      [ prevented_failure |-> TRUE,  false_positive |-> FALSE, true_positive |-> TRUE ],
      [ prevented_failure |-> FALSE, false_positive |-> TRUE,  true_positive |-> FALSE ] }

Bit(b) == IF b THEN 1 ELSE 0

\* the INSERT of a RuleEffectivenessModel whose counters were never assigned:
\* the column defaults (0) are taken
DefaultRow ==
    [ times_triggered |-> 0, prevented_failures |-> 0, false_positives |-> 0,
      true_positives |-> 0 ]

\* session.commit() flushes the objects session.add() was given
Flushed(rows, pending) == rows \o [ k \in 1..pending |-> DefaultRow ]

\* the increments applied to the row as the query loaded it
Incremented(read, flags) ==
    [ times_triggered    |-> read.times_triggered + 1,
      prevented_failures |-> read.prevented_failures + Bit(flags.prevented_failure),
      false_positives    |-> read.false_positives + Bit(flags.false_positive),
      true_positives     |-> read.true_positives + Bit(flags.true_positive) ]

\* the UPDATE of the flush: the attributes that were assigned are written with
\* the values computed from the loaded row, the others are left as they are
Updated(row, read, flags) ==
    [ times_triggered    |-> Incremented(read, flags).times_triggered,
      prevented_failures |-> IF flags.prevented_failure
                             THEN Incremented(read, flags).prevented_failures
                             ELSE row.prevented_failures,
      false_positives    |-> IF flags.false_positive
                             THEN Incremented(read, flags).false_positives
                             ELSE row.false_positives,
      true_positives     |-> IF flags.true_positive
                             THEN Incremented(read, flags).true_positives
                             ELSE row.true_positives ]

Idle == [ step |-> "idle" ]

InitTracking ==
    tracking = [ rows |-> <<>>,
                 pending |-> [ s \in TrackSessions |-> 0 ],
                 inflight |-> [ s \in TrackSessions |-> Idle ],
                 made |-> DefaultRow,
                 call |-> NoCall ]

\* the first half of track_effectiveness in session s: the query .first(), and
\* session.add of a new object when there is no row (its counters are None:
\* the column defaults are applied by the INSERT, not by the constructor)
TrackQuery(s) ==
    \E flags \in TrackFlags :
        /\ tracking.inflight[s] = Idle
        /\ tracking.made.times_triggered < MaxCalls
        /\ tracking' =
             [ tracking EXCEPT
                 !.pending[s] = IF tracking.rows = <<>> THEN @ + 1 ELSE @,
                 !.inflight[s] = [ step |-> "queried", flags |-> flags,
                                   found |-> tracking.rows # <<>>,
                                   read |-> IF tracking.rows = <<>> THEN DefaultRow
                                            ELSE tracking.rows[1] ],
                 !.made = Incremented(@, flags),
                 !.call = [ op |-> "query", session |-> s ] ]
        /\ UNCHANGED <<matcher, ctx, tasks, daemonVars, fileVars, ruleVars, sideVars>>

\* the second half: `effectiveness.times_triggered += 1` raises TypeError on the
\* new object (None + 1) and the call ends without a commit; on a loaded row
\* the increments are made and session.commit() writes them
TrackUpdate(s) ==
    /\ tracking.inflight[s] # Idle
    /\ tracking' =
         IF ~tracking.inflight[s].found
         THEN [ tracking EXCEPT !.inflight[s] = Idle,
                                !.call = [ op |-> "track_effectiveness", session |-> s,
                                           raised |-> "TypeError" ] ]
         ELSE [ tracking EXCEPT
                  !.rows = Flushed([ @ EXCEPT ![1] = Updated(@, tracking.inflight[s].read,
                                                              tracking.inflight[s].flags) ],
                                   tracking.pending[s]),
                  !.pending[s] = 0,
                  !.inflight[s] = Idle,
                  !.call = [ op |-> "track_effectiveness", session |-> s,
                             raised |-> None ] ]
    /\ UNCHANGED <<matcher, ctx, tasks, daemonVars, fileVars, ruleVars, sideVars>>

\* another method of the generator commits session s (promote_to_validated,
\* promote_to_enforced, deprecate_rule): the objects left in the session by
\* calls that raised are inserted
SessionCommit(s) ==
    /\ tracking.inflight[s] = Idle
    /\ tracking.pending[s] > 0
    /\ tracking' = [ tracking EXCEPT !.rows = Flushed(@, tracking.pending[s]),
                                     !.pending[s] = 0,
                                     !.call = [ op |-> "commit", session |-> s ] ]
    /\ UNCHANGED <<matcher, ctx, tasks, daemonVars, fileVars, ruleVars, sideVars>>

NextTracking == \E s \in TrackSessions : TrackQuery(s) \/ TrackUpdate(s) \/ SessionCommit(s)


(***************************************************************************)
(* GuardrailCache, ContextManager (guardloop/core/context_manager.py) and  *)
(* SmartGuardrailSelector (guardloop/core/smart_selector.py)               *)
(***************************************************************************)
MaxSecondsPast == 1                \* seconds the clock goes beyond the TTL

\* GuardrailCache.__init__: ttl_seconds = 300; the clock is in seconds
ttl_seconds == 300

\* datetime.now() - timestamp > timedelta(seconds=self.ttl_seconds), with >= in
\* the place of >
ExpiredAtTtl(timestamp, t) == t - timestamp >= ttl_seconds

\* datetime.now() - timestamp > timedelta(seconds=self.ttl_seconds)
Expired(timestamp, t) == t - timestamp > ttl_seconds

\* a dict without one key
Without(cache, key) == [ k \in DOMAIN cache \ {key} |-> cache[k] ]

\* GuardrailCache.get: the dict after it, and what it returned (hit FALSE: None)
CacheGet(cache, key, t) ==
    IF key \notin DOMAIN cache
    THEN [ cache |-> cache, hit |-> FALSE, content |-> <<>> ]
    ELSE IF Expired(cache[key].timestamp, t)
    THEN [ cache |-> Without(cache, key), hit |-> FALSE, content |-> <<>> ]
    ELSE [ cache |-> cache, hit |-> TRUE, content |-> cache[key].content ]

\* GuardrailCache.set
CacheSet(cache, key, content, t) ==
    [ k \in DOMAIN cache \cup {key} |->
        IF k = key THEN [ content |-> content, timestamp |-> t ] ELSE cache[k] ]

\* SmartGuardrailSelector.KEYWORD_MAP, in the order of the dict (which is the
\* order of guardrail_files)
GuardrailFiles ==
    << "core/always.md", "core/security_baseline.md", "core/testing_baseline.md",
       "specialized/auth_security.md", "specialized/database_design.md",
       "specialized/api_patterns.md", "specialized/ui_accessibility.md",
       "specialized/compliance_gdpr.md", "specialized/deployment_ops.md" >>

KEYWORD_MAP ==
    [ f \in SeqToSet(GuardrailFiles) |->
        CASE f = "core/always.md" ->
               {"architecture", "testing", "security", "quality", "documentation",
                "compliance", "workflow", "mandatory", "universal", "required"}
          [] f = "core/security_baseline.md" ->
               {"mfa", "azure", "rbac", "authentication", "authorization", "audit",
                "security", "token", "session", "permission", "access"}
          [] f = "core/testing_baseline.md" ->
               {"test", "coverage", "unit", "e2e", "mock", "assertion", "regression",
                "integration", "testing", "validation"}
          [] f = "specialized/auth_security.md" ->
               {"mfa", "azure", "ad", "active directory", "rbac", "role", "permission",
                "jwt", "session", "oauth", "sso", "saml", "authentication", "login"}
          [] f = "specialized/database_design.md" ->
               {"database", "schema", "table", "migration", "index", "constraint",
                "foreign key", "normalization", "sql", "query", "transaction"}
          [] f = "specialized/api_patterns.md" ->
               {"api", "endpoint", "rest", "http", "request", "response", "json", "get",
                "post", "put", "patch", "delete", "versioning"}
          [] f = "specialized/ui_accessibility.md" ->
               {"ui", "component", "accessibility", "wcag", "aria", "responsive",
                "mobile", "keyboard", "screen reader", "contrast", "semantic"}
          [] f = "specialized/compliance_gdpr.md" ->
               {"gdpr", "privacy", "data protection", "consent", "retention", "erasure",
                "portability", "right to access", "dpo"}
          [] f = "specialized/deployment_ops.md" ->
               {"deployment", "ci/cd", "pipeline", "docker", "kubernetes", "monitoring",
                "logging", "alerting", "health check", "scaling", "backup"} ]

\* SmartGuardrailSelector.TASK_GUARDRAIL_MAP
TASK_GUARDRAIL_MAP ==
    [ authentication |-> {"core/always.md", "core/security_baseline.md",
                          "specialized/auth_security.md"},
      security       |-> {"core/always.md", "core/security_baseline.md",
                          "specialized/auth_security.md"},
      vulnerability  |-> {"core/security_baseline.md", "specialized/auth_security.md"},
      database       |-> {"core/always.md", "specialized/database_design.md"},
      schema         |-> {"specialized/database_design.md"},
      migration      |-> {"specialized/database_design.md"},
      api            |-> {"core/always.md", "specialized/api_patterns.md"},
      endpoint       |-> {"specialized/api_patterns.md"},
      rest           |-> {"specialized/api_patterns.md"},
      ui             |-> {"core/always.md", "specialized/ui_accessibility.md"},
      component      |-> {"specialized/ui_accessibility.md"},
      frontend       |-> {"specialized/ui_accessibility.md"},
      accessibility  |-> {"specialized/ui_accessibility.md"},
      testing        |-> {"core/always.md", "core/testing_baseline.md"},
      test           |-> {"core/testing_baseline.md"},
      e2e            |-> {"core/testing_baseline.md"},
      gdpr           |-> {"specialized/compliance_gdpr.md"},
      compliance     |-> {"specialized/compliance_gdpr.md"},
      privacy        |-> {"specialized/compliance_gdpr.md"},
      deployment     |-> {"specialized/deployment_ops.md"},
      ci             |-> {"specialized/deployment_ops.md"},
      cd             |-> {"specialized/deployment_ops.md"},
      docker         |-> {"specialized/deployment_ops.md"},
      creative       |-> {"core/always.md"},
      brainstorm     |-> {"core/always.md"},
      ideation       |-> {"core/always.md"} ]

\* category == "core": filepath.startswith("core/")
CoreFiles == { "core/always.md", "core/security_baseline.md", "core/testing_baseline.md" }

\* steps 1 and 2 of select_guardrails: core/always.md and the files of the task
\* type.  load_guardrails passes token_budget=5000 and TOKEN_ESTIMATES sums to
\* 3076, so the test total_tokens + tokens <= token_budget never fails and the
\* steps are unions.
TaskFiles(task_type) ==
    {"core/always.md"}
    \cup IF task_type # None /\ task_type \in DOMAIN TASK_GUARDRAIL_MAP
         THEN TASK_GUARDRAIL_MAP[task_type] ELSE {}

\* step 3: the files with a keyword in the prompt (a prompt is the set of its
\* words; the prompts of this model hold a keyword only as a whole word)
KeywordFiles(prompt) == { f \in SeqToSet(GuardrailFiles) : KEYWORD_MAP[f] \cap prompt # {} }

\* step 4: strict mode adds the core files
WithStrict(selected, mode) == IF mode = "strict" THEN selected \cup CoreFiles ELSE selected

\* step 5: a creative prompt keeps core/always.md only
WithCreative(selected, prompt) ==
    IF prompt \cap {"creative", "brainstorm", "ideation", "idea"} # {}
       /\ Cardinality(selected) > 1
    THEN {"core/always.md"} ELSE selected

\* select_guardrails: the selected files sorted by priority (core/always.md,
\* the other core files, the specialized ones; files of one priority are in the
\* order of GuardrailFiles here)
SelectGuardrails(task_type, prompt, mode) ==
    SelectSeq(GuardrailFiles,
              LAMBDA f : f \in WithCreative(WithStrict(TaskFiles(task_type)
                                                         \cup KeywordFiles(prompt), mode),
                                            prompt))

\* ContextManager.AGENTS
AGENTS ==
    { "orchestrator", "architect", "coder", "tester", "reviewer", "security", "performance",
      "ux", "docs", "refactor", "debug", "deployment", "integration" }

\* the arguments of build_context: (agent, mode, task_type), the prompt, whether
\* a db_session is passed.  task_type is given in every call, so
\* classify_task_type is not reached.
ContextTargets == { [ agent |-> "coder", mode |-> "strict", task_type |-> "code" ] }
ContextPrompts == { {"new", "rest", "api"}, {"sql", "schema", "migration"} }

\* cache_key = f"guardrails_{agent}_{mode}_{task_type or 'none'}"
CacheKey(agent, mode, task_type) ==
    << agent, mode, IF task_type = None THEN "none" ELSE task_type >>

\* the key cache.set is called with directly, and the keys cache.get and
\* cache.invalidate are
DirectKeys == { << "test_key" >> }
CacheKeys == { CacheKey(a.agent, a.mode, a.task_type) : a \in ContextTargets } \cup DirectKeys

\* a piece of guardrails_content: the text of a file, the learned guardrails
\* formatted, the instructions of an agent
Part(kind, name, rules) == [ kind |-> kind, name |-> name, rules |-> rules ]

\* the content cache.set is called with directly
DirectContents == { << Part("file", "core/always.md", <<>>) >> }

\* the loop over selected_files: _load_file gives None for a file that is not
\* there, and the file is left out
FileParts(files, selected) ==
    [ k \in DOMAIN SelectSeq(selected, LAMBDA f : f \in files) |->
        Part("file", SelectSeq(selected, LAMBDA f : f \in files)[k], <<>>) ]

\* the learned guardrails: get_active_guardrails(task_type, 0.7, prompt, 5) and
\* format_for_context, when a session is passed and the task type is set
DynamicParts(rows, task_type, prompt, db_session) ==
    IF db_session /\ task_type # None
       /\ GetActiveGuardrails(rows, [ task_type |-> task_type, min_confidence |-> 70,
                                      prompt |-> << prompt >>, max_rules |-> 5,
                                      semantic |-> FALSE ],
                              TRUE, <<>>, 0, <<>>).returned # <<>>
    THEN << Part("dynamic", "Learned Guardrails",
                 GetActiveGuardrails(rows, [ task_type |-> task_type, min_confidence |-> 70,
                                             prompt |-> << prompt >>, max_rules |-> 5,
                                             semantic |-> FALSE ],
                                     TRUE, <<>>, 0, <<>>).returned) >>
    ELSE <<>>

\* the instructions of the agent: the checklist in strict mode, the summary
\* otherwise, when the agent is known and its file is there
AgentParts(agent, mode, agent_files) ==
    IF agent # None /\ agent \in AGENTS /\ agent_files
    THEN << Part(IF mode = "strict" THEN "checklist" ELSE "summary", agent, <<>>) >>
    ELSE <<>>

\* load_guardrails after a miss: guardrails_content, which "\n\n---\n\n".join
\* makes the text of (no part: the empty string)
Combined(c, args) ==
    FileParts(c.files, SelectGuardrails(args.task_type, args.prompt, args.mode))
    \o DynamicParts(c.rules, args.task_type, args.prompt, args.db_session)
    \o AgentParts(args.agent, args.mode, c.files # {})

\* load_guardrails: `if cached:` returns the cached text when it is not empty;
\* otherwise the text is assembled and cached
LoadGuardrails(c, args) ==
    IF /\ CacheGet(c.cache, CacheKey(args.agent, args.mode, args.task_type), c.now).hit
       /\ CacheGet(c.cache, CacheKey(args.agent, args.mode, args.task_type), c.now).content # <<>>
    THEN [ cache |-> c.cache, hit |-> TRUE,
           returned |-> c.cache[CacheKey(args.agent, args.mode, args.task_type)].content ]
    ELSE [ cache |-> CacheSet(CacheGet(c.cache,
                                       CacheKey(args.agent, args.mode, args.task_type),
                                       c.now).cache,
                              CacheKey(args.agent, args.mode, args.task_type),
                              Combined(c, args), c.now),
           hit |-> FALSE, returned |-> Combined(c, args) ]

\* the entry of a key as a call found it: its age, or no entry
EntryAge(c, key) == IF key \in DOMAIN c.cache THEN c.now - c.cache[key].timestamp ELSE 0 - 1

InitCtx ==
    ctx = [ now |-> 0, cache |-> <<>>, files |-> {}, rules |-> <<>>, built |-> <<>>,
            call |-> NoCall ]

\* the instants the clock is read at: a second after the start, the TTL after
\* it, and past that
Instants == { 0, 1, ttl_seconds, ttl_seconds + MaxSecondsPast }

\* datetime.now() moves on
Advance ==
    \E t \in Instants :
        /\ t > ctx.now
        /\ ctx' = [ ctx EXCEPT !.now = t, !.call = NoCall ]
        /\ UNCHANGED <<matcher, tracking, tasks, daemonVars, fileVars, ruleVars, sideVars>>

\* the guardrail and agent files are put in place
InstallFiles ==
    /\ ctx.files = {}
    /\ ctx' = [ ctx EXCEPT !.files = SeqToSet(GuardrailFiles), !.call = NoCall ]
    /\ UNCHANGED <<matcher, tracking, tasks, daemonVars, fileVars, ruleVars, sideVars>>

\* generate_from_pattern and promote_to_validated on the one rule of this model
LearnRule ==
    /\ ctx.rules = <<>>
    /\ ctx' = [ ctx EXCEPT
                  !.rules = PromoteToValidated(
                                GenerateFromPattern(<<>>,
                                                    CHOOSE p \in LearnedPatterns : p.id = 1,
                                                    <<>>, 0).rows, 1).rows,
                  !.call = NoCall ]
    /\ UNCHANGED <<matcher, tracking, tasks, daemonVars, fileVars, ruleVars, sideVars>>

\* deprecate_rule
DeprecateLearned ==
    /\ ctx.rules # <<>>
    /\ ctx.rules[1].status # "deprecated"
    /\ ctx' = [ ctx EXCEPT !.rules = DeprecateRule(@, 1, "low_effectiveness", 0).rows,
                           !.call = NoCall ]
    /\ UNCHANGED <<matcher, tracking, tasks, daemonVars, fileVars, ruleVars, sideVars>>

\* built: the prompt and db_session of the latest assembly, for as long as the
\* entry of its key is the one that assembly left in the cache
BuiltAfter(c, cache) ==
    IF \A a \in ContextTargets :
          /\ CacheKey(a.agent, a.mode, a.task_type) \in DOMAIN cache
          /\ CacheKey(a.agent, a.mode, a.task_type) \in DOMAIN c.cache
          /\ cache[CacheKey(a.agent, a.mode, a.task_type)]
               = c.cache[CacheKey(a.agent, a.mode, a.task_type)]
    THEN c.built ELSE <<>>

\* cache.get(key)
Get ==
    \E key \in CacheKeys :
        /\ ctx' = [ ctx EXCEPT
                      !.cache = CacheGet(@, key, ctx.now).cache,
                      !.built = BuiltAfter(ctx, CacheGet(ctx.cache, key, ctx.now).cache),
                      !.call = [ op |-> "get", key |-> key, age |-> EntryAge(ctx, key),
                                 hit |-> CacheGet(ctx.cache, key, ctx.now).hit,
                                 content |-> CacheGet(ctx.cache, key, ctx.now).content ] ]
        /\ UNCHANGED <<matcher, tracking, tasks, daemonVars, fileVars, ruleVars, sideVars>>

\* cache.set(key, content)
Set ==
    \E key \in DirectKeys, content \in DirectContents :
        /\ ctx' = [ ctx EXCEPT !.cache = CacheSet(@, key, content, ctx.now),
                               !.built = BuiltAfter(ctx, CacheSet(ctx.cache, key, content,
                                                                  ctx.now)),
                               !.call = [ op |-> "set", key |-> key ] ]
        /\ UNCHANGED <<matcher, tracking, tasks, daemonVars, fileVars, ruleVars, sideVars>>

\* cache.invalidate(key)
Invalidate ==
    \E key \in CacheKeys :
        /\ ctx' = [ ctx EXCEPT !.cache = Without(@, key),
                               !.built = BuiltAfter(ctx, Without(ctx.cache, key)),
                               !.call = [ op |-> "invalidate", key |-> key ] ]
        /\ UNCHANGED <<matcher, tracking, tasks, daemonVars, fileVars, ruleVars, sideVars>>

\* cache.clear(), refresh_cache()
Clear ==
    /\ ctx' = [ ctx EXCEPT !.cache = <<>>, !.built = <<>>, !.call = [ op |-> "clear" ] ]
    /\ UNCHANGED <<matcher, tracking, tasks, daemonVars, fileVars, ruleVars, sideVars>>

\* build_context(prompt, agent, mode, task_type, db_session): load_guardrails,
\* then the guardrails, the mode with its instructions and the prompt are put
\* into one text.  The call keeps what it found (the arguments of the assembly
\* before it, the age and content of the entry of its key) and what a miss
\* would have assembled.
ContextBuild ==
    \E target \in ContextTargets, prompt \in ContextPrompts, db_session \in BOOLEAN :
        LET args == [ agent |-> target.agent, mode |-> target.mode,
                      task_type |-> target.task_type, prompt |-> prompt,
                      db_session |-> db_session ]
            key  == CacheKey(target.agent, target.mode, target.task_type)
            r    == LoadGuardrails(ctx, args)
        IN  /\ ctx' = [ ctx EXCEPT
                          !.cache = r.cache,
                          !.built = << [ prompt |-> prompt, db_session |-> db_session ] >>,
                          !.call = [ op |-> "build_context", prompt |-> prompt,
                                     db_session |-> db_session,
                                     key |-> key, hit |-> r.hit,
                                     returned |-> [ guardrails |-> r.returned,
                                                    mode |-> target.mode,
                                                    prompt |-> prompt ],
                                     on_miss |-> Combined(ctx, args),
                                     built |-> ctx.built,
                                     age |-> EntryAge(ctx, key),
                                     entry |-> IF key \in DOMAIN ctx.cache
                                               THEN ctx.cache[key].content ELSE <<>> ] ]
            /\ UNCHANGED <<matcher, tracking, tasks, daemonVars, fileVars, ruleVars, sideVars>>

NextCtx ==
    \/ Advance \/ InstallFiles \/ LearnRule \/ DeprecateLearned
    \/ Get \/ Set \/ Invalidate \/ Clear \/ ContextBuild


(***************************************************************************)
(* Specifications                                                          *)
(***************************************************************************)
Init ==
    /\ InitDaemon /\ InitFiles /\ InitRules
    /\ InitStore /\ InitConv /\ InitLearned /\ InitWorkers /\ InitAgents
    /\ InitMatcher /\ InitTasks /\ InitTracking /\ InitCtx

Next == Submit \/ Attempt \/ Wake \/ Finish \/ LogSession \/ CancelLog

Spec == Init /\ [][Next]_vars

\* the task of _log_session is on the event loop: it runs or is cancelled
SpecLive == Init /\ [][Next]_vars /\ WF_vars(LogSession \/ CancelLog)

SpecFiles == Init /\ [][NextFiles]_vars

NextRules ==
    Tick \/ Generate \/ PromoteValidated \/ PromoteEnforced \/ Deprecate \/ GetActive

SpecRules == Init /\ [][NextRules]_vars

SpecConv == Init /\ [][NextConv]_vars

SpecLearned == Init /\ [][NextLearned]_vars

SpecStore == Init /\ [][NextStore]_vars

\* asyncio.sleep of a worker ends
SpecWorkers ==
    Init /\ [][NextWorkers]_vars /\ \A w \in WorkerNames : WF_vars(WakeUp(w))

SpecAgents == Init /\ [][NextAgents]_vars

SpecMatcher == Init /\ [][NextMatcher]_vars


SpecTasks == Init /\ [][NextTasks]_vars


SpecTracking == Init /\ [][NextTracking]_vars


SpecCtx == Init /\ [][NextCtx]_vars


(***************************************************************************)
(* Properties                                                              *)
(***************************************************************************)

HasCritical(findings) == \E i \in DOMAIN findings : findings[i] = "critical"

\* C1: for every request that returns a result, approved is false if and only if
\* the mode is strict and some violation or failure detected for the request is
\* critical; a strict result that is approved carries no critical violation and
\* no critical failure, and a standard result is always approved.
C1_EnforcementDecision ==
    pc = "returned" =>
        /\ ~result[1].approved <=>
             /\ request.mode = "strict"
             /\ HasCritical(detected.violations) \/ HasCritical(detected.failures)
        /\ request.mode = "strict" /\ result[1].approved =>
             ~HasCritical(result[1].violations) /\ ~HasCritical(result[1].failures)
        /\ request.mode = "standard" => result[1].approved

\* a strict request denied because only a failure (no violation) is critical
C1_StrictDenied ==
    /\ pc = "returned"
    /\ request.mode = "strict"
    /\ ~result[1].approved
    /\ HasCritical(detected.failures)
    /\ ~HasCritical(detected.violations)

\* the operation's path resolves, and to a place not under the project root
OutsideRoot(op) == ~ResolveRaises(op.file_path) /\ ~InsideRoot(Resolve(op.file_path))

\* C2: an operation whose resolved path lies outside the project root is always
\* rejected: validate_operation reports it unsafe, no execute_operation or
\* execute_all (confirm or not) writes it, and execute_all counts it as failed.
C2_OutsideRootRejected ==
    /\ fxCall.op = "validate" /\ OutsideRoot(fxCall.before) => ~fxCall.safe
    /\ \A full \in disk : InsideRoot(full)
    /\ fxCall.op = "execute_all" =>
          fxCall.results.failed >= Len(SelectSeq(fxCall.before, OutsideRoot))

\* the operation has been scored and 0.5 <= safety_score < 0.7
NeedsConfirmation(op) == op.validated /\ op.safety_score >= 50 /\ op.safety_score < 70

\* C3: an operation with 0.5 <= safety_score < 0.7 is never written when
\* execute_operation is called with confirm=False: the call fails with "User
\* confirmation required", and execute_all counts the operation as skipped.
C3_UnconfirmedIsSkipped ==
    /\ fxCall.op = "execute" /\ ~fxCall.confirm /\ NeedsConfirmation(operations[fxCall.index])
         => ~fxCall.success /\ fxCall.error = "User confirmation required but not provided"
    /\ fxCall.op = "execute_all" /\ ~fxCall.confirm /\ operations # <<>>
         => fxCall.results.skipped >= Len(SelectSeq(operations, NeedsConfirmation))

\* C4: process_request raises the execution error, and returns no result,
\* whenever the adapter's final response has a non-zero exit code.
C4_NonZeroExitRaises ==
    pc \in {"returned", "raised"} /\ ai_response # <<>> /\ ai_response[1].exit_code # 0
        => raised = "AIExecutionError" /\ result = <<>>

ExitsZero(o) == o.kind = "exit" /\ o.code = 0

\* C5: a subprocess run that exits with code 0 is always a success, whatever it
\* wrote to stderr: the adapter returns it without another attempt, and the daemon
\* turns it into a result without raising the execution error.
C5_ExitZeroIsSuccess ==
    /\ \A i \in DOMAIN attemptLog :
          ExitsZero(attemptLog[i]) =>
              /\ i = Len(attemptLog)
              /\ pc \notin {"attempting", "sleeping"}
              /\ ai_response[1].exit_code = 0
    /\ pc \in {"returned", "raised"} /\ attemptLog # <<>>
         /\ ExitsZero(attemptLog[Len(attemptLog)])
         => raised = None /\ result # <<>>

\* the attempts made so far that did not exit with code 0
FailedAttempts == SelectSeq(attemptLog, LAMBDA o : ~ExitsZero(o))

\* C6: one adapter execution makes at most 3 attempts, returns at once on the
\* first attempt that exits with code 0, waits 1s * 2^(n-1) after failed attempt n
\* (not after the last one), and when every attempt failed returns a response
\* with exit_code # 0 and a non-empty error.
C6_RetryPolicy ==
    /\ Len(attemptLog) <= 3
    /\ \A i \in DOMAIN attemptLog :
          ExitsZero(attemptLog[i]) =>
              i = Len(attemptLog) /\ ai_response # <<>> /\ ai_response[1].exit_code = 0
    /\ Len(sleeps) = IF Len(FailedAttempts) = 3 THEN 2 ELSE Len(FailedAttempts)
    /\ \A n \in DOMAIN sleeps : sleeps[n] = Pow2(n - 1)
    /\ Len(FailedAttempts) = 3 =>
          /\ ai_response # <<>>
          /\ ai_response[1].exit_code # 0
          /\ ai_response[1].error \notin {None, ""}

\* C7: over any sequence of generate, promote and deprecate operations a row's
\* status changes only one step forward along trial -> validated -> enforced, or
\* to deprecated; a deprecated row stays deprecated with its deactivated_at set,
\* no row is removed, and generate_from_pattern never hands back a deprecated row
\* (it creates a new row for the pattern).
C7_LifecycleMonotonic ==
    [][ /\ Len(guardrails') >= Len(guardrails)
        /\ \A i \in DOMAIN guardrails :
              /\ guardrails'[i].status # guardrails[i].status =>
                    \/ <<guardrails[i].status, guardrails'[i].status>>
                          \in { <<"trial", "validated">>, <<"validated", "enforced">> }
                    \/ guardrails'[i].status = "deprecated"
              /\ guardrails[i].status = "deprecated" =>
                    guardrails'[i].status = "deprecated"
              /\ guardrails'[i].status = "deprecated" =>
                    guardrails'[i].deactivated_at # NoTime
        /\ rulesCall'.op = "generate" /\ rulesCall'.returned # 0 =>
              guardrails'[rulesCall'.returned].status # "deprecated"
      ]_vars

\* a pattern whose first row was deprecated got a second row, which was promoted
C7_NewRowAfterDeprecation ==
    \E i, j \in DOMAIN guardrails :
        /\ i < j
        /\ guardrails[i].pattern_id = guardrails[j].pattern_id
        /\ guardrails[i].status = "deprecated"
        /\ guardrails[i].deactivated_at # NoTime
        /\ guardrails[j].status = "validated"

\* C8: every illegal transition request returns false and leaves the row as it
\* was: promote_to_validated on a row that is not trial, promote_to_enforced on a
\* row that is not validated, deprecate_rule on a row already deprecated (its
\* deactivated_at and metadata keep their values).
C8_IllegalTransitionIsNoOp ==
    /\ rulesCall.op = "promote_to_validated" /\ rulesCall.before.id # 0
         /\ rulesCall.before.status # "trial"
         => ~rulesCall.returned /\ guardrails[rulesCall.rule_id] = rulesCall.before
    /\ rulesCall.op = "promote_to_enforced" /\ rulesCall.before.id # 0
         /\ rulesCall.before.status # "validated"
         => ~rulesCall.returned /\ guardrails[rulesCall.rule_id] = rulesCall.before
    /\ rulesCall.op = "deprecate" /\ rulesCall.before.id # 0
         /\ rulesCall.before.status = "deprecated"
         => ~rulesCall.returned /\ guardrails[rulesCall.rule_id] = rulesCall.before

\* C9: every row get_active_guardrails returns has status validated or enforced,
\* confidence >= min_confidence and no deactivated_at, whatever the arguments and
\* whatever lifecycle operations came before.
C9_ReturnedAreActive ==
    rulesCall.op = "get_active" =>
        \A k \in DOMAIN rulesCall.returned :
            /\ guardrails[rulesCall.returned[k]].status \in {"validated", "enforced"}
            /\ guardrails[rulesCall.returned[k]].confidence >= rulesCall.min_confidence
            /\ guardrails[rulesCall.returned[k]].deactivated_at = NoTime

\* a call that returned a row while the table also held a deprecated one
C9_DeprecatedLeftOut ==
    /\ rulesCall.op = "get_active"
    /\ rulesCall.returned # <<>>
    /\ \E i \in DOMAIN guardrails :
          /\ guardrails[i].status = "deprecated"
          /\ guardrails[i].confidence >= rulesCall.min_confidence
          /\ i \notin SeqToSet(rulesCall.returned)

\* C10: get_active_guardrails returns at most max_rules rows for every
\* combination of arguments, a missing or empty prompt included.
C10_AtMostMaxRules ==
    rulesCall.op = "get_active" => Len(rulesCall.returned) <= rulesCall.max_rules

\* C11: for every conversation id, after any sequence of start_conversation,
\* add_message, get_history, build_context and clear_conversation, the
\* persisted turn numbers of the conversation are 0, 1, ..., n-1 in insertion
\* order (no duplicates, no gaps).  Violated: add_message numbers the turn by
\* the length of the in-memory list and never loads the persisted rows.
C11_TurnNumbersAreSequential ==
    \A s \in SessionIds :
        \A i \in 1..Len(conv.history[s]) : conv.history[s][i].turn_number = i - 1

\* a learned_patterns row is kept and neither its frequency nor its last_seen
\* goes down in the step
KeepsOrGrows(before, after) ==
    before # <<>> =>
        /\ after # <<>>
        /\ after[1].frequency >= before[1].frequency
        /\ after[1].last_seen >= before[1].last_seen

\* C12: across successive runs of the pattern analyser, with any window
\* lengths and any history, the stored frequency and last_seen of each
\* LearnedPattern never decrease.  Violated: a run overwrites frequency with
\* the number of rows inside its own window.
C12_FrequencyAndLastSeenNeverDecrease ==
    [][ /\ KeepsOrGrows(learned.failure_pattern, learned'.failure_pattern)
        /\ KeepsOrGrows(learned.violation_pattern, learned'.violation_pattern)
      ]_vars

\* the session row is stored with one violations row per detected violation
\* and one failure_modes row per detected failure
StoredWithChildren ==
    \E s \in store.sessions :
        /\ Cardinality({ i \in DOMAIN store.violations :
                            store.violations[i].session_id = s.id })
              = Len(detected.violations)
        /\ Cardinality({ i \in DOMAIN store.failure_modes :
                            store.failure_modes[i].session_id = s.id })
              = Len(detected.failures)

\* C13: for every request that returns a result and whose persistence does not
\* fail, the store eventually holds the Session row together with one
\* Violation row per detected violation and one FailureMode row per detected
\* failure.  Violated: _log_session stores the session row only.
C13_SessionStoredWithChildren ==
    (pc = "returned") ~> (logTask \in {"failed", "cancelled"} \/ StoredWithChildren)

C15_DeleteLeavesNoChildRow ==
    store.call.op = "delete" /\ store.call.raised = None =>
        /\ \A i \in DOMAIN store.violations :
              store.violations[i].session_id # store.call.id
        /\ \A i \in DOMAIN store.failure_modes :
              store.failure_modes[i].session_id # store.call.id

C17_DecisionsFollowChain ==
    agents.op = "orchestrate" =>
        LET decisions == agents.returned
            expected  == SelectSeq(agents.chain, LAMBDA a : a \in agents.registered)
        IN  /\ agents.raised = None
            /\ \A i \in 1..Len(decisions) :
                  /\ decisions[i].agent_name = expected[i]
                  /\ ~decisions[i].approved => i = Len(decisions)
            /\ (\A i \in 1..Len(decisions) : decisions[i].approved) =>
                  Len(decisions) = Len(expected)

\* C18: select_chain in strict mode always returns a chain containing secops,
\* standards_oracle and evaluator, for every task type and whether or not a
\* user-specified agent is given.  Violated: a user-specified agent is
\* returned alone, whatever the mode.
C18_StrictChainHasComplianceAgents ==
    agents.op = "select_chain" /\ agents.mode = "strict" =>
        {"secops", "standards_oracle", "evaluator"} \subseteq SeqToSet(agents.returned)

\* C18 as the code has it: select_chain in strict mode returns a chain
\* containing secops, standards_oracle and evaluator for every task type
\* (known or unknown) when no user-specified agent is given; a user-specified
\* agent is returned alone, in either mode.
C18_StrictChainUnlessUserAgent ==
    agents.op = "select_chain" =>
        IF agents.user_agent # None
        THEN agents.returned = << agents.user_agent >>
        ELSE agents.mode = "strict" =>
                {"secops", "standards_oracle", "evaluator"}
                    \subseteq SeqToSet(agents.returned)

\* strict mode added the three agents to the one-agent chain of fix_typo
C18_StrictAgentsAdded ==
    /\ agents.op = "select_chain" /\ agents.mode = "strict"
    /\ agents.user_agent = None /\ agents.task_type = "fix_typo"
    /\ agents.returned = <<"standards_oracle", "secops", "evaluator">>

\* C19: the complexity of a task is determined by the length L of its base
\* chain: L <= 2 simple, 3 <= L <= 5 medium, 6 <= L <= 8 complex, L >= 9
\* critical.  Violated: get_complexity calls a chain of 5 complex.
C19_ComplexityByChainLength ==
    agents.op = "get_complexity" =>
        LET L == Len(BaseChain(agents.task_type))
        IN  agents.returned = IF L <= 2 THEN "simple"
                              ELSE IF L <= 5 THEN "medium"
                              ELSE IF L <= 8 THEN "complex"
                              ELSE "critical"

\* C20: every AgentDecision produced by a reviewer has a confidence within
\* [0, 1], for every number of violations, failures and detected issues in the
\* context.  Violated: a blocked decision gets 0.5 + (issues / checks) * 0.3,
\* above 1 from six issues on with the evaluator's three checks.
C20_ConfidenceInUnitInterval ==
    agents.op = "evaluate" =>
        /\ 0 <= agents.returned.confidence[1]
        /\ agents.returned.confidence[1] <= agents.returned.confidence[2]

\* C21: when the embedding model is missing (sentence_transformers does not
\* import), get_active_guardrails with semantic matching requested does not
\* raise: it returns the keyword ranking of its candidates.  Violated:
\* _ensure_model_loaded re-raises the ImportError and get_active_guardrails has
\* no handler and no fallback, so the call raises and returns nothing.
C21_MissingModelDoesNotRaise ==
    rulesCall.op = "get_active" => rulesCall.raised = None

\* C22: find_relevant called with an empty candidate list returns an empty
\* result and neither loads nor attempts to load the embedding model.
\* Violated: find_relevant calls _ensure_model_loaded before it looks at the
\* list, so the first call loads the model, or raises ImportError when
\* sentence_transformers is missing.
C22_EmptyListDoesNotLoad ==
    matcher.call.op = "find_relevant" /\ matcher.call.guardrails = <<>> =>
        /\ matcher.call.raised = None
        /\ matcher.call.returned = <<>>
        /\ ~matcher.call.load_attempted

\* C26: after a rule's text is edited, find_relevant never scores the rule with
\* the embedding of its previous text: every row of the list is scored with the
\* embedding of the rule_text it has at the call.  Violated:
\* guardrail_embeddings is keyed by the id alone, and find_relevant uses the
\* vector found under the id without looking at the text it was made from.
C26_ScoredWithCurrentText ==
    matcher.call.op = "find_relevant" /\ matcher.call.raised = None =>
        \A k \in DOMAIN matcher.call.guardrails :
            matcher.call.used[matcher.call.guardrails[k].id]
                = Encode(matcher.call.guardrails[k].rule_text)

\* C27: when a strict-mode request is denied (approved = false), no file
\* operation extracted from the response is written to disk.  Violated: the
\* auto-save step of process_request runs execute_all on the extracted
\* operations without looking at the enforcement decision.
C27_DeniedWritesNoFile ==
    pc = "returned" /\ request.mode = "strict" /\ ~result[1].approved =>
        result[1].file_operations = <<>>

\* C29: for a worker instance at most one run loop is active at any time and
\* every stop request is honoured: while stop() is the latest request the
\* instance is not running, and never are two loops inside `while
\* self.running:` of a running instance.  Violated both ways: start() sets
\* running = True without looking at anything, so a task scheduled before the
\* stop undoes it when it runs, and a start() made while the stopped loop is
\* still asleep leaves that loop to go on next to the new one.
C29_OneLoopAndStopHonoured ==
    /\ tasks.stopped => ~tasks.running
    /\ tasks.running => Cardinality(LoopsInside(tasks)) <= 1

\* C23: after any interleaving of k track_effectiveness calls for one rule on
\* one day, callers on separate sessions included, exactly one rule_effectiveness
\* row exists for it, its times_triggered is k and each other counter is the
\* number of calls that set its flag.  Violated: the first call raises
\* TypeError and leaves no row; the rows that a later commit inserts for the
\* objects left behind are one per failed call; and two callers that loaded the
\* same row both write the value they computed from it.
C23_OneRowCountsEveryCall ==
    /\ \A s \in TrackSessions : tracking.inflight[s] = Idle
    /\ tracking.made.times_triggered > 0
    => /\ Len(tracking.rows) = 1
       /\ tracking.rows[1] = tracking.made

\* C24: two context assemblies with identical inputs (prompt, agent, mode,
\* task_type, and db_session too), the second made before the cache entry of
\* the first expires, return identical texts: an assembly that finds the entry
\* the assembly before it left, for the same arguments and within the TTL,
\* returns the guardrails of that entry.  Violated: load_guardrails tests `if cached:`, so a cached empty
\* text counts as a miss and the guardrails are assembled again from files and
\* rules that may have changed.
C24_SameInputsSameContext ==
    /\ ctx.call.op = "build_context"
    /\ ctx.call.built = << [ prompt |-> ctx.call.prompt, db_session |-> ctx.call.db_session ] >>
    /\ ctx.call.age >= 0
    /\ ctx.call.age <= ttl_seconds
    => ctx.call.returned.guardrails = ctx.call.entry

\* C25: an entry stored at time t is returned by a get at time t' exactly when
\* t' - t does not exceed the TTL; a get on an expired entry returns nothing and
\* removes that entry; an entry is removed by nothing else than invalidate,
\* clear and the get that finds it expired, and changed by nothing else than a
\* set of its key (load_guardrails included).
C25_EntryLivesForTtl ==
    [][ /\ ctx'.call.op = "get" =>
             IF /\ ctx'.call.key \in DOMAIN ctx.cache
                /\ ctx.now - ctx.cache[ctx'.call.key].timestamp <= ttl_seconds
             THEN /\ ctx'.call.hit
                  /\ ctx'.call.content = ctx.cache[ctx'.call.key].content
                  /\ ctx'.cache = ctx.cache
             ELSE /\ ~ctx'.call.hit
                  /\ DOMAIN ctx'.cache = DOMAIN ctx.cache \ { ctx'.call.key }
                  /\ \A k \in DOMAIN ctx'.cache : ctx'.cache[k] = ctx.cache[k]
        /\ \A k \in DOMAIN ctx.cache :
             k \notin DOMAIN ctx'.cache =>
                \/ /\ ctx'.call.op = "get"
                   /\ ctx'.call.key = k
                   /\ ctx.now - ctx.cache[k].timestamp > ttl_seconds
                \/ ctx'.call.op = "invalidate" /\ ctx'.call.key = k
                \/ ctx'.call.op = "clear"
        /\ \A k \in DOMAIN ctx.cache \cap DOMAIN ctx'.cache :
             ctx'.cache[k] # ctx.cache[k] =>
                /\ ctx'.call.op \in {"set", "build_context"}
                /\ ctx'.call.key = k
      ]_vars

\* a get found an entry older than the TTL, returned nothing and removed it
C25_ExpiredEntryRemoved ==
    /\ ctx.call.op = "get"
    /\ ctx.call.age > ttl_seconds
    /\ ~ctx.call.hit
    /\ ctx.call.key \notin DOMAIN ctx.cache

\* C28: a dynamic guardrail that has been deprecated appears in no context
\* assembled after the deprecation, a cache entry made before it and still
\* within its TTL notwithstanding.  Violated: the cached text holds the learned
\* guardrails of the time it was assembled, and deprecate_rule does not touch
\* the cache.
C28_DeprecatedRuleNotInContext ==
    ctx.call.op = "build_context" =>
        \A k \in DOMAIN ctx.call.returned.guardrails :
            \A j \in DOMAIN ctx.call.returned.guardrails[k].rules :
                ctx.rules[ctx.call.returned.guardrails[k].rules[j]].status # "deprecated"

\* C30: a cache hit is transparent: the guardrails returned for a prompt on a
\* hit are the ones that would be selected and loaded for that prompt on a
\* miss.  Violated: the key is (agent, mode, task_type) and the value the whole
\* assembled text, whose files select_guardrails chose by the keywords of the
\* prompt that was being served at the miss.
C30_HitEqualsMiss ==
    ctx.call.op = "build_context" /\ ctx.call.hit =>
        ctx.call.returned.guardrails = ctx.call.on_miss

====
